---- MODULE Spec2Model ----
(***************************************************************************)
(* A model of the <media-shader> custom element (src/media-shader.js):     *)
(* the component's fields, the DOM attributes that drive it, and the host  *)
(* objects it owns (GPU programs and textures, media elements, pending     *)
(* animation-frame callbacks).  Each handler of the element is one action; *)
(* each method is an operator from a world record to a world record, so    *)
(* that a handler is the composition of the methods it calls.              *)
(* The video-frame callbacks, which only the variant of the element in    *)
(* src/unnamed/part_001 has, are modelled from that file in a section of   *)
(* their own, on the variable video.                                       *)
(***************************************************************************)
EXTENDS Integers, Sequences, FiniteSets, TLC

VARIABLES
  this,         \* the component's own fields (this.gl, this.program, ...)
  attrs,        \* the element's DOM attributes
  staleLoads,   \* loads still in flight of media elements the component
                \* no longer holds: tag -> number of them
  rafQueue,     \* handles of pending requestAnimationFrame callbacks
  glPrograms,   \* GPU program objects: id -> record
  glTextures,   \* live GPU texture ids
  isConnected,  \* the element is in the document, and its
                \* IntersectionObserver is observing it
  leftView,     \* the most recent intersection notification reported the
                \* element as not intersecting, and a notification since
                \* the element was connected found the component loaded
  calls,        \* host calls issued by the handler that ran last
  swapPending,  \* a program swapped in by updateShader has not drawn yet
  staleDone,    \* the handler that ran last was a superseded load's completion
  devicePixelRatio, \* window.devicePixelRatio
  autoplayBlocked,  \* the host's autoplay policy rejects play()
  uploadThrows,     \* the host refuses to read the media's pixels:
                    \* texImage2D throws
  contentRect,      \* the element's layout box, in CSS pixels
  video             \* the component of src/unnamed/part_001, as far as its
                    \* video-frame callbacks go: its fields, its media
                    \* elements, their pending callbacks and queued events

vars == <<this, attrs, staleLoads, rafQueue, glPrograms, glTextures,
          isConnected, leftView, calls, swapPending, staleDone,
          devicePixelRatio, autoplayBlocked, uploadThrows, contentRect,
          video>>

----------------------------------------------------------------------------
(* Bounds *)

MaxInflight == 2    \* media loads that may be in flight at once
MouseGrid == 2      \* width and height of the element's box, in pixels
MaxElements == 2    \* media elements the other variant creates in a run
MaxRequests == 2    \* video-frame callbacks requested on one element

----------------------------------------------------------------------------
(* Values *)

NULL == 0           \* JS null / undefined for object handles
NullNum == -1       \* JS null in a numeric field
NaN == -2           \* JS NaN

\* this.canvas = null
NoCanvas == [none |-> TRUE]

\* this.mediaElement = null
NoElement == [none |-> TRUE]

\* JS truthiness of a numeric field
Truthy(x) == x > 0

\* Math.round(p / q) for p >= 0, q > 0
Round(p, q) == (2 * p + q) \div (2 * q)

Min(S) == CHOOSE x \in S : \A y \in S : x <= y

\* Math.abs
Abs(x) == IF x < 0 THEN -x ELSE x

\* the device pixel ratios of the screens the window may be on
DprValues == {1, 2}

\* the layout boxes the element's container may give it
BoxValues == {[width |-> 300, height |-> 150], [width |-> 400, height |-> 200]}

DefaultFragmentShader == "defaultFragmentShader"
FragTint == "uniform vec3 uColor; uniform sampler2D uTexture; main(){...}"
FragSyntaxError == "void main( {"
FragLinkError == "varying vec3 vTexCoord; main(){...}"
FragMouse == "uniform vec4 uMouse; main(){...}"
FragShapes == "uniform vec2 uOffset; uniform vec3 uColor; uniform vec4 uRect; uniform mat3 uTransform; uniform mat4 uProjection; uniform int uCount; uniform float uGain, uScale; uniform bool uFlag, uInvert; uniform sampler2D uTexture; main(){...}"

U_COLOR == "{\"uColor\":[1,0,0]}"
U_MALFORMED == "{uColor:"
U_TRUNCATED == "{\"uColor\":[1,0"
U_NULL == "null"
U_VECTORS == "{\"uOffset\":[1,2],\"uColor\":[1,0,0],\"uRect\":[0,0,1,1],\"uTransform\":[1,0,0,0,1,0,0,0,1],\"uProjection\":[1,0,0,0,0,1,0,0,0,0,1,0,0,0,0,1]}"
U_SCALARS == "{\"uCount\":3,\"uGain\":0.5,\"uScale\":2.0,\"uFlag\":true,\"uInvert\":false}"
U_SKIPPED == "{\"uColor\":[1,0,0,1,0],\"uOffset\":[],\"uGain\":\"high\",\"uCount\":{\"n\":3},\"uFlag\":null,\"uGhost\":[1,2,3]}"

SrcValues == {"https://h/a.png", "https://h/v.mp4"}
FragmentShaderValues == {FragTint, FragSyntaxError, FragLinkError}
UniformsValues == {U_COLOR, U_MALFORMED, U_TRUNCATED, U_NULL}
\* uniform sets with a value of every shape
ShapeValues == {U_VECTORS, U_SCALARS, U_SKIPPED}
WidthValues == {"200", "27"}
HeightValues == {"100"}
PlayingValues == {"", "false"}
LoadingValues == {"eager"}

\* an absent attribute (getAttribute returns null)
Absent == "<absent>"

----------------------------------------------------------------------------
(* Host functions *)

\* parseInt(str, 10)
parseInt(str) ==
  CASE str = "200" -> 200
    [] str = "27" -> 27
    [] str = "100" -> 100
    [] OTHER -> NaN

\* /\.(mp4|webm|ogg)$/i.test(src)
isVideoSrc(src) == src \in {"https://h/v.mp4"}

\* naturalWidth / videoWidth of the resource once it has loaded
NaturalWidth(src) == IF isVideoSrc(src) THEN 320 ELSE 600
NaturalHeight(src) == IF isVideoSrc(src) THEN 240 ELSE 1300

\* the triples <<c, n, d>> of a configured dimension and the natural sizes
\* above for which the double c * (n / d) lies below the exact c*n/d, and
\* that is a half: 1300 / 600 is the double 2.1666666666666665, and
\* 27 * 2.1666666666666665 is the double 58.49999999999999
HalfBelow == {<<27, 1300, 600>>}

\* Math.round(c * (n / d)) in double arithmetic: the quotient is rounded to
\* a double before the product is taken
RoundProduct(c, n, d) ==
  IF <<c, n, d>> \in HalfBelow THEN Round(c * n, d) - 1 ELSE Round(c * n, d)

\* the values JSON.parse builds: an array of numbers, a number read from a
\* decimal literal as the fraction num / den, a boolean, and one member of an
\* object
Array(v) == [kind |-> "array", v |-> v]
Number(num, den) == [kind |-> "number", num |-> num, den |-> den]
Boolean(b) == [kind |-> "boolean", b |-> b]
Entry(name, value) == [name |-> name, value |-> value]

\* JSON.parse: ok = FALSE when it throws SyntaxError
EmptyObject == [kind |-> "object", entries |-> <<>>]
JSONParse(str) ==
  CASE str = U_COLOR ->
         [ok |-> TRUE,
          value |-> [kind |-> "object",
                     entries |-> <<[name |-> "uColor",
                                    value |-> Array(<<1, 0, 0>>)]>>]]
    [] str = U_NULL -> [ok |-> TRUE, value |-> [kind |-> "null", entries |-> <<>>]]
    [] str = U_VECTORS ->
         [ok |-> TRUE,
          value |-> [kind |-> "object",
                     entries |-> <<Entry("uOffset", Array(<<1, 2>>)),
                                   Entry("uColor", Array(<<1, 0, 0>>)),
                                   Entry("uRect", Array(<<0, 0, 1, 1>>)),
                                   Entry("uTransform",
                                         Array(<<1, 0, 0, 0, 1, 0, 0, 0, 1>>)),
                                   Entry("uProjection",
                                         Array(<<1, 0, 0, 0, 0, 1, 0, 0,
                                                 0, 0, 1, 0, 0, 0, 0, 1>>))>>]]
    [] str = U_SCALARS ->
         [ok |-> TRUE,
          value |-> [kind |-> "object",
                     entries |-> <<Entry("uCount", Number(3, 1)),
                                   Entry("uGain", Number(5, 10)),
                                   Entry("uScale", Number(20, 10)),
                                   Entry("uFlag", Boolean(TRUE)),
                                   Entry("uInvert", Boolean(FALSE))>>]]
    [] str = U_SKIPPED ->
         [ok |-> TRUE,
          value |-> [kind |-> "object",
                     entries |-> <<Entry("uColor", Array(<<1, 0, 0, 1, 0>>)),
                                   Entry("uOffset", Array(<<>>)),
                                   Entry("uGain", [kind |-> "string"]),
                                   Entry("uCount", [kind |-> "object"]),
                                   Entry("uFlag", [kind |-> "null"]),
                                   Entry("uGhost", Array(<<1, 2, 3>>))>>]]
    [] OTHER -> [ok |-> FALSE, value |-> EmptyObject]

\* COMPILE_STATUS of a fragment shader source
Compiles(source) == source # FragSyntaxError

\* LINK_STATUS of the program built from the vertex shader and source
Links(source) == source # FragLinkError

\* names for which getUniformLocation returns a location
ActiveUniforms(source) ==
  CASE source = DefaultFragmentShader ->
         {"uTexture", "uResolution", "uTime", "uHasTexture"}
    [] source = FragMouse -> {"uMouse"}
    [] source = FragShapes ->
         {"uOffset", "uColor", "uRect", "uTransform", "uProjection",
          "uCount", "uGain", "uScale", "uFlag", "uInvert", "uTexture"}
    [] OTHER -> {"uColor", "uTexture", "uTime"}

BuiltinUniforms == <<"uResolution", "uTexture", "uTime", "uMouse", "uHasTexture">>

----------------------------------------------------------------------------
(* The world a handler runs in: the variables as one record, plus exc, *)
(* which is TRUE while an exception propagates.                        *)

World ==
  [this |-> this, attrs |-> attrs, staleLoads |-> staleLoads,
   rafQueue |-> rafQueue, glPrograms |-> glPrograms,
   glTextures |-> glTextures, calls |-> <<>>,
   swapPending |-> swapPending, devicePixelRatio |-> devicePixelRatio,
   autoplayBlocked |-> autoplayBlocked, uploadThrows |-> uploadThrows,
   exc |-> FALSE]

Call(w, op, arg) == [w EXCEPT !.calls = Append(@, [op |-> op, arg |-> arg])]

Throw(w) == [w EXCEPT !.exc = TRUE]

Caught(w) == [w EXCEPT !.exc = FALSE]

----------------------------------------------------------------------------
(* GPU objects *)

\* the id the host gives the next program object: ids of objects that are
\* deleted and that the component no longer refers to are given out again
FreshProgram(w) ==
  LET used == {p \in DOMAIN w.glPrograms : w.glPrograms[p].deletes = 0}
                \cup {w.this.program}
  IN Min((1..(Cardinality(used) + 1)) \ used)

\* gl.createProgram() followed by attachShader x2 and linkProgram
createProgram(w, p, source) ==
  LET entry == [source |-> source, deletes |-> 0, wasActive |-> FALSE]
      w1 == [w EXCEPT !.glPrograms =
               [q \in DOMAIN @ \cup {p} |-> IF q = p THEN entry ELSE @[q]]]
  IN Call(Call(w1, "createProgram", p), "linkProgram", p)

\* gl.deleteProgram(p); deleting an object the host has already freed is
\* recorded as a second deletion of it
deleteProgram(w, p) ==
  LET again == [source |-> "freed", deletes |-> 2, wasActive |-> TRUE]
      table == IF p \in DOMAIN w.glPrograms
                 THEN [w.glPrograms EXCEPT ![p].deletes = @ + 1]
                 ELSE [q \in DOMAIN w.glPrograms \cup {p} |->
                         IF q = p THEN again ELSE w.glPrograms[q]]
  IN Call([w EXCEPT !.glPrograms = table], "deleteProgram", p)

\* this.program = p
setProgram(w, p) ==
  [w EXCEPT !.this.program = p, !.glPrograms[p].wasActive = TRUE]

\* the id the host gives the next texture object
FreshTexture(w) ==
  Min((1..(Cardinality(w.glTextures) + 1)) \ w.glTextures)

\* createShader(type, source): the shader object, or null when it does not
\* compile (and then the object is deleted)
createShader(w, source) ==
  LET w1 == Call(w, "createShader", source)
  IN IF Compiles(source) THEN w1 ELSE Call(w1, "deleteShader", source)

VertexShader == "vertexShader"

----------------------------------------------------------------------------
(* Uniforms *)

\* Object.keys(this._uniforms)
UniformNames(u) == {u.entries[i].name : i \in 1..Len(u.entries)}

\* updateUniformLocations(): clears the map, resolves the custom names, then
\* the built-in names; Object.keys(null) throws after the clear
updateUniformLocations(w) ==
  LET p == w.this.program
      active == ActiveUniforms(w.glPrograms[p].source)
      cleared == [w EXCEPT !.this._uniformLocations = <<>>]
      builtin == {BuiltinUniforms[i] : i \in 1..Len(BuiltinUniforms)}
      names == (UniformNames(w.this._uniforms) \cup builtin) \cap active
  IN IF w.this._uniforms.kind = "null"
       THEN Throw(cleared)
       ELSE [w EXCEPT !.this._uniformLocations =
               [n \in names |-> [program |-> p, name |-> n]]]

\* Number.isInteger(value)
IsInteger(value) == value.num % value.den = 0

\* the dispatch of applyUniforms with every number sent as a float
UniformCall_numbersAsFloat(value) ==
  CASE value.kind = "array" /\ Len(value.v) = 2 -> "uniform2f"
    [] value.kind = "array" /\ Len(value.v) = 3 -> "uniform3f"
    [] value.kind = "array" /\ Len(value.v) = 4 -> "uniform4f"
    [] value.kind = "array" /\ Len(value.v) = 9 -> "uniformMatrix3fv"
    [] value.kind = "array" /\ Len(value.v) = 16 -> "uniformMatrix4fv"
    [] value.kind = "number" -> "uniform1f"
    [] value.kind = "boolean" -> "uniform1i"
    [] OTHER -> "skip"

\* the gl.uniform* entry point applyUniforms picks for a value, or "skip"
UniformCall(value) ==
  CASE value.kind = "array" /\ Len(value.v) = 2 -> "uniform2f"
    [] value.kind = "array" /\ Len(value.v) = 3 -> "uniform3f"
    [] value.kind = "array" /\ Len(value.v) = 4 -> "uniform4f"
    [] value.kind = "array" /\ Len(value.v) = 9 -> "uniformMatrix3fv"
    [] value.kind = "array" /\ Len(value.v) = 16 -> "uniformMatrix4fv"
    [] value.kind = "number" /\ IsInteger(value) -> "uniform1i"
    [] value.kind = "number" -> "uniform1f"
    [] value.kind = "boolean" -> "uniform1i"
    [] OTHER -> "skip"

\* the numbers that entry point is given: the components of an array (for a
\* matrix, the Float32Array made of them), the number itself (a non-integer
\* as its fraction), 1 or 0 for a boolean
UniformArgs(value) ==
  CASE value.kind = "array" -> value.v
    [] value.kind = "number" /\ IsInteger(value) ->
         <<value.num \div value.den>>
    [] value.kind = "number" -> <<value.num, value.den>>
    [] value.kind = "boolean" -> <<IF value.b THEN 1 ELSE 0>>
    [] OTHER -> <<>>

\* applyUniforms(): Object.entries(null) throws
applyUniforms(w) ==
  IF w.this.gl = NULL \/ w.this.program = NULL THEN w
  ELSE
    LET w1 == Call(w, "useProgram", w.this.program)
        IsBound(e) == /\ e.name \in DOMAIN w.this._uniformLocations
                      /\ UniformCall(e.value) # "skip"
        bound == SelectSeq(w.this._uniforms.entries, IsBound)
    IN IF w.this._uniforms.kind = "null"
         THEN Throw(w1)
         ELSE [w1 EXCEPT !.calls = @ \o
                 [i \in 1..Len(bound) |->
                    [op |-> UniformCall(bound[i].value),
                     arg |-> [name |-> bound[i].name,
                              args |-> UniformArgs(bound[i].value)]]]]

\* updateUniforms with the uniform set emptied when the string does not parse
updateUniforms_resetOnError(w, uniformsStr) ==
  LET parsed == IF uniformsStr = Absent
                  THEN [ok |-> TRUE, value |-> EmptyObject]
                  ELSE JSONParse(uniformsStr)
      w1 == [w EXCEPT !.this._uniforms = parsed.value]
      w2 == updateUniformLocations(w1)
  IN IF w1.this.program = NULL THEN w1
     ELSE IF w2.exc THEN Caught(w2)
     ELSE Caught(applyUniforms(w2))

\* updateUniforms that stores the new set without resolving its handles
updateUniforms_noResolve(w, uniformsStr) ==
  LET parsed == IF uniformsStr = Absent
                  THEN [ok |-> TRUE, value |-> EmptyObject]
                  ELSE JSONParse(uniformsStr)
      w1 == [w EXCEPT !.this._uniforms = parsed.value]
  IN IF ~parsed.ok THEN w
     ELSE IF w1.this.program = NULL THEN w1
     ELSE Caught(applyUniforms(w1))

\* updateUniforms(uniformsStr)
updateUniforms(w, uniformsStr) ==
  LET parsed == IF uniformsStr = Absent
                  THEN [ok |-> TRUE, value |-> EmptyObject]
                  ELSE JSONParse(uniformsStr)
      w1 == [w EXCEPT !.this._uniforms = parsed.value]
      w2 == updateUniformLocations(w1)
  IN IF ~parsed.ok THEN w
     ELSE IF w1.this.program = NULL THEN w1
     ELSE IF w2.exc THEN Caught(w2)
     ELSE Caught(applyUniforms(w2))

----------------------------------------------------------------------------
(* Shader programs *)

\* initWebGL()
initWebGL(w) ==
  IF w.this.gl = NULL THEN w
  ELSE
    LET w1 == createShader(createShader(w, VertexShader), DefaultFragmentShader)
        p == FreshProgram(w1)
        w2 == setProgram(createProgram(w1, p, DefaultFragmentShader), p)
        delShaders(x) == Call(Call(x, "deleteShader", VertexShader),
                              "deleteShader", DefaultFragmentShader)
        failed == [deleteProgram(delShaders(w2), p) EXCEPT !.this.program = NULL]
        w3 == Call(Call(delShaders(w2), "createBuffer", 1), "createBuffer", 2)
    IN IF ~Compiles(DefaultFragmentShader) THEN w1
       ELSE IF ~Links(DefaultFragmentShader) THEN failed
       ELSE [w3 EXCEPT !.this._buffers = 1]

\* updateShader with the old program deleted before the new one is linked
updateShader_deleteFirst(w, source) ==
  LET delOld(x) == IF x.this.program # NULL
                     THEN deleteProgram(x, x.this.program) ELSE x
      uniforms(x) == IF x.exc THEN x ELSE applyUniforms(x)
      swap(x, p) ==
        uniforms(updateUniformLocations(
                   [setProgram(x, p) EXCEPT !.swapPending = TRUE]))
      link(x, p) == IF ~Links(source)
                      THEN createProgram(x, p, source)
                      ELSE swap(createProgram(x, p, source), p)
      compiled(x) == IF ~Compiles(source) THEN x
                     ELSE link(x, FreshProgram(x))
  IN IF w.this.gl = NULL THEN w
     ELSE compiled(createShader(createShader(delOld(w), VertexShader),
                                source))

\* updateShader with the old program overwritten without being deleted
updateShader_noDelete(w, source) ==
  LET uniforms(x) == IF x.exc THEN x ELSE applyUniforms(x)
      swap(x, p) ==
        uniforms(updateUniformLocations(
                   [setProgram(x, p) EXCEPT !.swapPending = TRUE]))
      link(x, p) == IF ~Links(source)
                      THEN createProgram(x, p, source)
                      ELSE swap(createProgram(x, p, source), p)
      compiled(x) == IF ~Compiles(source) THEN x
                     ELSE link(x, FreshProgram(x))
  IN IF w.this.gl = NULL THEN w
     ELSE compiled(createShader(createShader(w, VertexShader), source))

\* updateShader without the updateUniformLocations that follows the swap
updateShader_keepHandles(w, source) ==
  LET delOld(x) == IF x.this.program # NULL
                     THEN deleteProgram(x, x.this.program) ELSE x
      uniforms(x) == IF x.exc THEN x ELSE applyUniforms(x)
      swap(x, p) ==
        uniforms([setProgram(delOld(x), p) EXCEPT !.swapPending = TRUE])
      link(x, p) == IF ~Links(source)
                      THEN createProgram(x, p, source)
                      ELSE swap(createProgram(x, p, source), p)
      compiled(x) == IF ~Compiles(source) THEN x
                     ELSE link(x, FreshProgram(x))
  IN IF w.this.gl = NULL THEN w
     ELSE compiled(createShader(createShader(w, VertexShader), source))

\* updateShader(fragmentShaderSource): compile both stages, link, and only
\* then delete the old program, store the new one and refresh the uniforms
updateShader(w, source) ==
  LET delOld(x) == IF x.this.program # NULL
                     THEN deleteProgram(x, x.this.program) ELSE x
      uniforms(x) == IF x.exc THEN x ELSE applyUniforms(x)
      swap(x, p) ==
        uniforms(updateUniformLocations(
                   [setProgram(delOld(x), p) EXCEPT !.swapPending = TRUE]))
      link(x, p) == IF ~Links(source)
                      THEN createProgram(x, p, source)
                      ELSE swap(createProgram(x, p, source), p)
      compiled(x) == IF ~Compiles(source) THEN x
                     ELSE link(x, FreshProgram(x))
  IN IF w.this.gl = NULL THEN w
     ELSE compiled(createShader(createShader(w, VertexShader), source))

----------------------------------------------------------------------------
(* Canvas and texture *)

\* Math.round(css) with the device pixel ratio left out
CanvasDim_noDpr(css, dpr) ==
  IF css \in {NullNum, NaN} THEN 0 ELSE Round(css, 1)

\* the value a canvas dimension takes when assigned Math.round(css * dpr):
\* null counts as 0 and NaN is stored as 0
CanvasDim(css, dpr) ==
  IF css \in {NullNum, NaN} THEN 0 ELSE Round(css * dpr, 1)

\* naturalWidth || videoWidth of a media element: 0 until it has loaded
ElementWidth(el) == IF el.state = "loaded" THEN NaturalWidth(el.src) ELSE 0
ElementHeight(el) == IF el.state = "loaded" THEN NaturalHeight(el.src) ELSE 0

\* updateCanvasSize(): the css size from the attributes and the media's
\* natural size, then the backing store; this.canvas.width throws when the
\* canvas is null
updateCanvasSize(w) ==
  LET t == w.this
      cw == t._width
      ch == t._height
      hasMedia == t.mediaElement # NoElement
      nw == IF hasMedia THEN ElementWidth(t.mediaElement) ELSE 0
      nh == IF hasMedia THEN ElementHeight(t.mediaElement) ELSE 0
      known == Truthy(nw) /\ Truthy(nh)
      css ==
        IF hasMedia THEN
          IF ~known THEN <<cw, ch>>
          ELSE IF ~Truthy(cw) /\ ~Truthy(ch) THEN <<nw, nh>>
          ELSE IF Truthy(cw) /\ ~Truthy(ch) THEN <<cw, RoundProduct(cw, nh, nw)>>
          ELSE IF ~Truthy(cw) /\ Truthy(ch) THEN <<RoundProduct(ch, nw, nh), ch>>
          ELSE <<cw, ch>>
        ELSE
          IF ~Truthy(cw) /\ ~Truthy(ch) THEN <<300, 150>>
          ELSE IF Truthy(cw) /\ ~Truthy(ch) THEN <<cw, Round(cw, 2)>>
          ELSE IF ~Truthy(cw) /\ Truthy(ch) THEN <<ch * 2, ch>>
          ELSE <<cw, ch>>
      w1 == IF known
              THEN [w EXCEPT !.this._naturalWidth = nw,
                             !.this._naturalHeight = nh]
              ELSE w
      \* window.devicePixelRatio || 1
      dpr == IF Truthy(w.devicePixelRatio) THEN w.devicePixelRatio ELSE 1
      w2 == [w1 EXCEPT !.this.canvas =
               [width |-> CanvasDim(css[1], dpr),
                height |-> CanvasDim(css[2], dpr)]]
  IN IF t.canvas = NoCanvas THEN Throw(w1)
     ELSE IF t.gl # NULL THEN Call(w2, "viewport", 0)
     ELSE w2

\* createTexture()
createTexture(w) ==
  IF w.this.gl = NULL THEN w
  ELSE
    LET old == w.this.texture
        w1 == IF old # NULL
                THEN Call([w EXCEPT !.glTextures = @ \ {old}],
                          "deleteTexture", old)
                ELSE w
        tex == FreshTexture(w1)
    IN Call([w1 EXCEPT !.glTextures = @ \cup {tex}, !.this.texture = tex],
            "createTexture", tex)

----------------------------------------------------------------------------
(* Render loop *)

\* cancelAnimationFrame(handle)
cancelAnimationFrame(w, handle) ==
  Call([w EXCEPT !.rafQueue = @ \ {handle}], "cancelAnimationFrame", handle)

\* the handle requestAnimationFrame returns: never one that is still
\* pending
FreshHandle(w) ==
  Min((1..(Cardinality(w.rafQueue) + 1)) \ w.rafQueue)

\* this.animationFrame = requestAnimationFrame(render)
requestAnimationFrame(w) ==
  LET h == FreshHandle(w)
  IN Call([w EXCEPT !.rafQueue = @ \cup {h}, !.this.animationFrame = h],
          "requestAnimationFrame", h)

\* one run of the render closure of startRenderLoop
render(w) ==
  LET t == w.this
      stopped == IF t.animationFrame # NULL
                   THEN [cancelAnimationFrame(w, t.animationFrame)
                           EXCEPT !.this.animationFrame = NULL]
                   ELSE w
      upload == t.mediaElement # NoElement /\ t.texture # NULL
      texImage(x) == IF ~upload THEN x
                     ELSE IF x.uploadThrows
                       THEN Throw(Call(x, "texImage2D", t.mediaElement.state))
                     ELSE [Call(x, "texImage2D", t.mediaElement.state)
                             EXCEPT !.this._hasTexture = TRUE]
      hasTexture(x) == IF ~x.exc /\ "uHasTexture" \in DOMAIN t._uniformLocations
                         THEN Call(x, "uHasTexture",
                                   IF x.this._hasTexture THEN 1 ELSE 0)
                         ELSE x
      \* _mouseData, in units of 1 / MouseGrid
      mouse(x) == IF ~x.exc /\ "uMouse" \in DOMAIN t._uniformLocations
                    THEN LET held(d) == <<d[1], d[2], Abs(d[3]), Abs(d[4])>>
                             d == IF x.this._isMouseDown
                                    THEN held(x.this._mouseData)
                                    ELSE x.this._mouseData
                         IN Call([x EXCEPT !.this._mouseData = d],
                                 "uMouse", d)
                    ELSE x
      uniforms(x) == IF x.exc THEN x ELSE applyUniforms(x)
      draw(x) == IF x.exc THEN x
                 ELSE requestAnimationFrame(
                        [Call(x, "drawArrays", t.program)
                           EXCEPT !.swapPending = FALSE])
  IN IF t.gl = NULL \/ t.program = NULL THEN stopped
     ELSE IF t.canvas = NoCanvas THEN Throw(w)
     ELSE draw(uniforms(mouse(hasTexture(texImage(
            Call(Call(Call(w, "viewport", 0), "clear", 0),
                 "useProgram", t.program))))))

\* startRenderLoop without the cancelAnimationFrame of the pending frame
startRenderLoop_noCancel(w) ==
  IF w.this.gl = NULL \/ w.this.program = NULL THEN w
  ELSE render(w)

\* startRenderLoop()
startRenderLoop(w) ==
  IF w.this.gl = NULL \/ w.this.program = NULL THEN w
  ELSE render(IF w.this.animationFrame # NULL
                THEN cancelAnimationFrame(w, w.this.animationFrame)
                ELSE w)

----------------------------------------------------------------------------
(* Media *)

\* if (value): absent and empty attribute values are falsy
Falsy(v) == v \in {Absent, ""}

\* the number of media loads in flight: the held element's, if it is still
\* loading, and the stale ones
Inflight(w) ==
  w.staleLoads.IMG + w.staleLoads.VIDEO
    + (IF w.this.mediaElement # NoElement
          /\ w.this.mediaElement.state = "loading" THEN 1 ELSE 0)

\* this.mediaElement stops referring to its element: if that element's load
\* is still in flight, its handlers will still run
release(w) ==
  LET cur == w.this.mediaElement
  IN IF cur # NoElement /\ cur.state = "loading"
       THEN [w EXCEPT !.staleLoads[cur.tag] = @ + 1]
       ELSE w

\* mediaElement.play().catch(warn) on the held element: when the host
\* rejects the request the element stays paused, and the rejection is caught
\* and only logged
play(w) ==
  IF w.autoplayBlocked
    THEN Call(Call(w, "play", 0), "warn", "Auto-play failed")
    ELSE Call([w EXCEPT !.this.mediaElement.paused = FALSE], "play", 0)

\* mediaElement.pause() on the held element
pause(w) == Call([w EXCEPT !.this.mediaElement.paused = TRUE], "pause", 0)

\* loadMedia without the return when there is no context
loadMedia_noContextCheck(w, src) ==
  LET t == w.this
      cur == t.mediaElement
      \* the branch that re-attaches the element it already has
      r1 == [w EXCEPT !.this._hasTexture = TRUE]
      r2 == IF cur.tag = "VIDEO"
              THEN IF t._playing THEN play(r1) ELSE pause(r1)
              ELSE r1
      texture(x) == IF x.exc THEN x ELSE startRenderLoop(createTexture(x))
      \* the branch that replaces the element
      c1 == IF cur # NoElement
              THEN LET a == IF t.animationFrame # NULL
                              THEN [cancelAnimationFrame(w, t.animationFrame)
                                      EXCEPT !.this.animationFrame = NULL]
                              ELSE w
                   IN [a EXCEPT !.this._hasTexture = FALSE]
              ELSE w
      isVideo == isVideoSrc(src)
      el == [src |-> src, tag |-> IF isVideo THEN "VIDEO" ELSE "IMG",
             state |-> "loading", paused |-> TRUE]
      playing(x) == IF isVideo
                      THEN [x EXCEPT !.this._playing =
                                       (w.attrs.playing # "false")]
                      ELSE x
      c3 == playing([release(c1) EXCEPT !.this.mediaElement = el])
  IN IF Falsy(src) THEN [w EXCEPT !.this._hasTexture = FALSE]
     ELSE IF cur # NoElement /\ cur.src = src
       THEN Caught(texture(updateCanvasSize(r2)))
     ELSE IF t.canvas = NoCanvas THEN Caught(Throw(c3))
     ELSE Call(c3, "load", src)

\* loadMedia(src) up to its await; an async function never throws to its
\* caller
loadMedia(w, src) ==
  LET t == w.this
      cur == t.mediaElement
      \* the branch that re-attaches the element it already has
      r1 == [w EXCEPT !.this._hasTexture = TRUE]
      r2 == IF cur.tag = "VIDEO"
              THEN IF t._playing THEN play(r1) ELSE pause(r1)
              ELSE r1
      texture(x) == IF x.exc THEN x ELSE startRenderLoop(createTexture(x))
      \* the branch that replaces the element
      c1 == IF cur # NoElement
              THEN LET a == IF t.animationFrame # NULL
                              THEN [cancelAnimationFrame(w, t.animationFrame)
                                      EXCEPT !.this.animationFrame = NULL]
                              ELSE w
                   IN [a EXCEPT !.this._hasTexture = FALSE]
              ELSE w
      isVideo == isVideoSrc(src)
      el == [src |-> src, tag |-> IF isVideo THEN "VIDEO" ELSE "IMG",
             state |-> "loading", paused |-> TRUE]
      playing(x) == IF isVideo
                      THEN [x EXCEPT !.this._playing =
                                       (w.attrs.playing # "false")]
                      ELSE x
      c3 == playing([release(c1) EXCEPT !.this.mediaElement = el])
  IN IF Falsy(src) THEN [w EXCEPT !.this._hasTexture = FALSE]
     ELSE IF t.gl = NULL THEN w
     ELSE IF cur # NoElement /\ cur.src = src
       THEN Caught(texture(updateCanvasSize(r2)))
     ELSE IF t.canvas = NoCanvas THEN Caught(Throw(c3))
     ELSE Call(c3, "load", src)

\* loadHandler of a load whose element has tag (onload and
\* onloadedmetadata), run when that element has loaded
loadHandler(w, tag) ==
  LET texture(x) == IF x.exc THEN x ELSE startRenderLoop(createTexture(x))
      resume(x) == IF /\ ~x.exc
                      /\ tag = "VIDEO"
                      /\ x.this._playing
                      /\ x.this.mediaElement # NoElement
                     THEN play(x)
                     ELSE x
  IN IF w.this.mediaElement = NoElement THEN w
     ELSE resume(texture(updateCanvasSize(w)))

\* the catch block of loadMedia, run when the load's promise is rejected
loadFailed(w) ==
  IF w.this.mediaElement # NoElement
    THEN [release(w) EXCEPT !.this.mediaElement = NoElement]
    ELSE w

----------------------------------------------------------------------------
(* Lifecycle *)

NewCanvas == [width |-> 300, height |-> 150]

\* cleanup with the program deleted before the buffers and the texture
cleanup_programFirst(w) ==
  LET t == w.this
      w1 == IF t.animationFrame # NULL
              THEN [cancelAnimationFrame(w, t.animationFrame)
                      EXCEPT !.this.animationFrame = NULL]
              ELSE w
      w2 == IF t.mediaElement # NoElement /\ t.mediaElement.tag = "VIDEO"
              THEN pause(w1)
              ELSE w1
      w3 == IF t.program # NULL
              THEN [deleteProgram(w2, t.program) EXCEPT !.this.program = NULL]
              ELSE w2
      w4 == IF t._buffers # NULL
              THEN [Call(Call(w3, "deleteBuffer", 1), "deleteBuffer", 2)
                      EXCEPT !.this._buffers = NULL]
              ELSE w3
      w5 == IF t.texture # NULL
              THEN [Call(w4, "deleteTexture", t.texture)
                      EXCEPT !.glTextures = @ \ {t.texture},
                             !.this.texture = NULL]
              ELSE w4
      w6 == [Call(Call(w5, "clear", 0), "loseContext", 0)
               EXCEPT !.this._uniformLocations = <<>>,
                      !.this.gl = NULL]
      w7 == IF t.gl # NULL THEN w6 ELSE w2
  IN IF ~t._isLoaded THEN w
     ELSE [w7 EXCEPT !.this.canvas = NoCanvas, !.this._isLoaded = FALSE,
                     !.swapPending = FALSE]

\* cleanup that leaves the pending animation frame scheduled
cleanup_noCancel(w) ==
  LET t == w.this
      w2 == IF t.mediaElement # NoElement /\ t.mediaElement.tag = "VIDEO"
              THEN pause(w)
              ELSE w
      w3 == IF t._buffers # NULL
              THEN [Call(Call(w2, "deleteBuffer", 1), "deleteBuffer", 2)
                      EXCEPT !.this._buffers = NULL]
              ELSE w2
      w4 == IF t.texture # NULL
              THEN [Call(w3, "deleteTexture", t.texture)
                      EXCEPT !.glTextures = @ \ {t.texture},
                             !.this.texture = NULL]
              ELSE w3
      w5 == IF t.program # NULL
              THEN [deleteProgram(w4, t.program) EXCEPT !.this.program = NULL]
              ELSE w4
      w6 == [Call(Call(w5, "clear", 0), "loseContext", 0)
               EXCEPT !.this._uniformLocations = <<>>,
                      !.this.gl = NULL]
      w7 == IF t.gl # NULL THEN w6 ELSE w2
  IN IF ~t._isLoaded THEN w
     ELSE [w7 EXCEPT !.this.canvas = NoCanvas, !.this._isLoaded = FALSE,
                     !.swapPending = FALSE]

\* cleanup without the early return of a component that is not loaded
cleanup_noGuard(w) ==
  LET t == w.this
      w1 == IF t.animationFrame # NULL
              THEN [cancelAnimationFrame(w, t.animationFrame)
                      EXCEPT !.this.animationFrame = NULL]
              ELSE w
      w2 == IF t.mediaElement # NoElement /\ t.mediaElement.tag = "VIDEO"
              THEN pause(w1)
              ELSE w1
      w3 == IF t._buffers # NULL
              THEN [Call(Call(w2, "deleteBuffer", 1), "deleteBuffer", 2)
                      EXCEPT !.this._buffers = NULL]
              ELSE w2
      w4 == IF t.texture # NULL
              THEN [Call(w3, "deleteTexture", t.texture)
                      EXCEPT !.glTextures = @ \ {t.texture},
                             !.this.texture = NULL]
              ELSE w3
      w5 == IF t.program # NULL
              THEN [deleteProgram(w4, t.program) EXCEPT !.this.program = NULL]
              ELSE w4
      w6 == [Call(Call(w5, "clear", 0), "loseContext", 0)
               EXCEPT !.this._uniformLocations = <<>>,
                      !.this.gl = NULL]
      w7 == IF t.gl # NULL THEN w6 ELSE w2
  IN [w7 EXCEPT !.this.canvas = NoCanvas, !.this._isLoaded = FALSE,
                !.swapPending = FALSE]

\* cleanup()
cleanup(w) ==
  LET t == w.this
      w1 == IF t.animationFrame # NULL
              THEN [cancelAnimationFrame(w, t.animationFrame)
                      EXCEPT !.this.animationFrame = NULL]
              ELSE w
      w2 == IF t.mediaElement # NoElement /\ t.mediaElement.tag = "VIDEO"
              THEN pause(w1)
              ELSE w1
      w3 == IF t._buffers # NULL
              THEN [Call(Call(w2, "deleteBuffer", 1), "deleteBuffer", 2)
                      EXCEPT !.this._buffers = NULL]
              ELSE w2
      w4 == IF t.texture # NULL
              THEN [Call(w3, "deleteTexture", t.texture)
                      EXCEPT !.glTextures = @ \ {t.texture},
                             !.this.texture = NULL]
              ELSE w3
      w5 == IF t.program # NULL
              THEN [deleteProgram(w4, t.program) EXCEPT !.this.program = NULL]
              ELSE w4
      w6 == [Call(Call(w5, "clear", 0), "loseContext", 0)
               EXCEPT !.this._uniformLocations = <<>>,
                      !.this.gl = NULL]
      w7 == IF t.gl # NULL THEN w6 ELSE w2
  IN IF ~t._isLoaded THEN w
     ELSE [w7 EXCEPT !.this.canvas = NoCanvas, !.this._isLoaded = FALSE,
                     !.swapPending = FALSE]

\* initializeComponent(): glOk says whether getContext returns a context
initializeComponent(w, glOk) ==
  LET a == w.attrs
      getContext(x) ==
        Call([x EXCEPT !.this.canvas = NewCanvas,
                       !.this.gl = IF glOk THEN 1 ELSE NULL],
             "getContext", 0)
      shader(x) == IF ~Falsy(a.fragmentShader)
                     THEN updateShader(x, a.fragmentShader) ELSE x
      uniforms(x) == IF x.exc \/ Falsy(a.uniforms) THEN x
                     ELSE updateUniforms(x, a.uniforms)
      width(x) == IF x.exc \/ Falsy(a.width) THEN x
                  ELSE updateCanvasSize(
                         [x EXCEPT !.this._width = parseInt(a.width)])
      height(x) == IF x.exc \/ Falsy(a.height) THEN x
                   ELSE updateCanvasSize(
                          [x EXCEPT !.this._height = parseInt(a.height)])
      media(x) == IF x.exc THEN x
                  ELSE IF ~Falsy(a.src) THEN loadMedia(x, a.src)
                  ELSE startRenderLoop(x)
      setup(x) ==
        IF ~glOk THEN x
        ELSE media(height(width(uniforms(shader(
               [initWebGL(x) EXCEPT !.this._isLoaded = TRUE])))))
  IN IF w.this._isLoaded THEN w ELSE setup(getContext(w))

\* static get observedAttributes()
observedAttributes ==
  {"src", "fragment-shader", "width", "height", "uniforms", "playing", "alt",
   "loading"}

\* updateAccessibility(altText): it sets the aria attributes of the canvas,
\* which the model does not keep; with this.canvas null it throws
updateAccessibility(w, altText) ==
  IF w.this.canvas = NoCanvas THEN Throw(w) ELSE w

\* attributeChangedCallback without the comparison of oldValue and newValue
attributeChangedCallback_noGuard(w, name, oldValue, newValue, glOk) ==
  LET cur == w.this.mediaElement
      playing == newValue # Absent /\ newValue # "false"
      p1 == [w EXCEPT !.this._playing = playing]
      r ==
        CASE name = "src" -> loadMedia(w, newValue)
          [] name = "fragment-shader" ->
               updateShader(w, IF Falsy(newValue)
                                 THEN DefaultFragmentShader ELSE newValue)
          [] name = "width" ->
               updateCanvasSize(
                 [w EXCEPT !.this._width =
                    IF Falsy(newValue) THEN NullNum ELSE parseInt(newValue)])
          [] name = "height" ->
               updateCanvasSize(
                 [w EXCEPT !.this._height =
                    IF Falsy(newValue) THEN NullNum ELSE parseInt(newValue)])
          [] name = "uniforms" -> updateUniforms(w, newValue)
          [] name = "alt" -> updateAccessibility(w, newValue)
          [] name = "playing" ->
               IF cur # NoElement /\ cur.tag = "VIDEO"
                 THEN IF playing THEN play(p1) ELSE pause(p1)
                 ELSE p1
          [] name = "loading" ->
               IF newValue = "eager"
                 THEN initializeComponent(w, glOk) ELSE w
          [] OTHER -> w
  IN Caught(r)

\* attributeChangedCallback(name, oldValue, newValue): async, so nothing it
\* throws reaches the caller
attributeChangedCallback(w, name, oldValue, newValue, glOk) ==
  LET cur == w.this.mediaElement
      playing == newValue # Absent /\ newValue # "false"
      p1 == [w EXCEPT !.this._playing = playing]
      r ==
        CASE name = "src" -> loadMedia(w, newValue)
          [] name = "fragment-shader" ->
               updateShader(w, IF Falsy(newValue)
                                 THEN DefaultFragmentShader ELSE newValue)
          [] name = "width" ->
               updateCanvasSize(
                 [w EXCEPT !.this._width =
                    IF Falsy(newValue) THEN NullNum ELSE parseInt(newValue)])
          [] name = "height" ->
               updateCanvasSize(
                 [w EXCEPT !.this._height =
                    IF Falsy(newValue) THEN NullNum ELSE parseInt(newValue)])
          [] name = "uniforms" -> updateUniforms(w, newValue)
          [] name = "alt" -> updateAccessibility(w, newValue)
          [] name = "playing" ->
               IF cur # NoElement /\ cur.tag = "VIDEO"
                 THEN IF playing THEN play(p1) ELSE pause(p1)
                 ELSE p1
          [] name = "loading" ->
               IF newValue = "eager"
                 THEN initializeComponent(w, glOk) ELSE w
          [] OTHER -> w
  IN IF oldValue = newValue THEN w ELSE Caught(r)

----------------------------------------------------------------------------
(* Mouse: an event carries the pointer's offset from the element's box, *)
(* clientX - rect.left and clientY - rect.top, in pixels; _mouseData    *)
(* holds the offsets divided by the box's size, here in units of        *)
(* 1 / MouseGrid.                                                       *)

MouseEvents == [x : 0..(MouseGrid - 1), y : 0..(MouseGrid - 1)]

\* _onMouseMove(event)
_onMouseMove(w, event) ==
  [w EXCEPT !.this._mouseData =
     IF w.this._isMouseDown
       THEN <<event.x, event.y, event.x, event.y>>
       ELSE <<event.x, event.y, @[3], @[4]>>]

\* _onMouseDown(event)
_onMouseDown(w, event) ==
  [w EXCEPT !.this._isMouseDown = TRUE,
            !.this._mouseData = <<@[1], @[2], event.x, event.y>>]

\* _onMouseUp(): also the listener of mouseleave
_onMouseUp(w) ==
  [w EXCEPT !.this._isMouseDown = FALSE,
            !.this._mouseData = <<@[1], @[2], -Abs(@[3]), -Abs(@[4])>>]

----------------------------------------------------------------------------
(* The video-frame callbacks of the variant src/unnamed/part_001: its     *)
(* loadMedia subscribes updateVideoTexture to the frames of the video it  *)
(* creates, and the element's play and pause listeners renew and cancel   *)
(* the subscription.  v is the record of the fields these handlers use.   *)

VideoSrcValues == {"https://h/v.mp4"}
VideoPlayingValues == {"false"}

\* the state the constructor leaves
VideoInit ==
  [isConnected |-> FALSE, _isLoaded |-> FALSE, src |-> Absent,
   playing |-> Absent, mediaElement |-> NULL, elements |-> <<>>,
   texture |-> FALSE, _playing |-> FALSE, _videoFrameCallback |-> NULL,
   pending |-> {}, events |-> {}]

\* this.mediaElement.requestVideoFrameCallback(updateVideoTexture), stored in
\* _videoFrameCallback: the element numbers its requests; with mediaElement
\* null the expression throws
requestVideoFrameCallback(v) ==
  LET m == v.mediaElement
      h == v.elements[m].requests + 1
  IN IF m = NULL THEN v
     ELSE [v EXCEPT !.elements[m].requests = h,
                    !.pending = @ \cup {[el |-> m, h |-> h]},
                    !._videoFrameCallback = h]

\* this.mediaElement.cancelVideoFrameCallback(this._videoFrameCallback)
cancelVideoFrameCallback(v) ==
  IF v.mediaElement = NULL THEN v
  ELSE [v EXCEPT !.pending =
          @ \ {[el |-> v.mediaElement, h |-> v._videoFrameCallback]}]

\* this.mediaElement.play(): a paused element starts and its play event is
\* queued
playVideo(v) ==
  LET m == v.mediaElement
  IN IF v.elements[m].paused
       THEN [v EXCEPT !.elements[m].paused = FALSE,
                      !.events = @ \cup {[el |-> m, type |-> "play"]}]
       ELSE v

\* this.mediaElement.pause(): a playing element stops and its pause event is
\* queued
pauseVideo(v) ==
  LET m == v.mediaElement
  IN IF ~v.elements[m].paused
       THEN [v EXCEPT !.elements[m].paused = TRUE,
                      !.events = @ \cup {[el |-> m, type |-> "pause"]}]
       ELSE v

\* loadMedia(src) of the variant, for a video, up to its await
loadVideo(v, src) ==
  LET removed == IF v.mediaElement # NULL
                   THEN cancelVideoFrameCallback(pauseVideo(v))
                   ELSE v
      created(x) ==
        [x EXCEPT !.elements = Append(@, [loaded |-> FALSE, paused |-> TRUE,
                                          requests |-> 0]),
                  !.mediaElement = Len(x.elements) + 1]
  IN IF src = Absent THEN v
     ELSE IF ~v._isLoaded THEN v
     ELSE requestVideoFrameCallback(created(removed))

\* the loadedmetadata listener of element e, and the catch block of
\* loadMedia when the listener rejects
onLoadedMetadata(v, e) ==
  LET x == [v EXCEPT !.elements[e].loaded = TRUE]
      shouldPlay == x.playing # "false"
      y == [x EXCEPT !.texture = TRUE, !._playing = shouldPlay]
  IN IF ~x.isConnected \/ x.mediaElement = NULL \/ ~x._isLoaded
       THEN [x EXCEPT !.mediaElement = NULL]
       ELSE IF shouldPlay THEN playVideo(y) ELSE y

\* the play listener loadMedia adds to each video
onPlay(v) == requestVideoFrameCallback([v EXCEPT !._playing = TRUE])

\* the pause listener loadMedia adds to each video
onPause(v) == cancelVideoFrameCallback([v EXCEPT !._playing = FALSE])

\* updateVideoTexture(): reading readyState of a null mediaElement throws
updateVideoTexture(v) ==
  IF v.mediaElement = NULL THEN v
  ELSE IF v._playing /\ v.isConnected THEN requestVideoFrameCallback(v)
  ELSE v

\* the playing case of attributeChangedCallback of the variant
playingChanged(v, newValue) ==
  LET x == [v EXCEPT !.playing = newValue]
  IN IF x.mediaElement = NULL THEN x
     ELSE IF newValue # "false"
       THEN [playVideo(x) EXCEPT !._playing = TRUE]
       ELSE [pauseVideo(x) EXCEPT !._playing = FALSE]

\* cleanup() of the variant
cleanupVideo(v) ==
  LET paused == IF v.mediaElement # NULL THEN pauseVideo(v) ELSE v
  IN IF ~v._isLoaded THEN v
     ELSE [paused EXCEPT !.texture = FALSE, !._isLoaded = FALSE]

\* initializeComponent() of the variant, with a context available
initializeVideo(v) ==
  IF v._isLoaded THEN v
  ELSE loadVideo([v EXCEPT !._isLoaded = TRUE], v.src)

\* the handler's result becomes the next state, within the bounds
CommitVideo(v) ==
  /\ Len(v.elements) <= MaxElements
  /\ \A e \in DOMAIN v.elements : v.elements[e].requests <= MaxRequests
  /\ video' = v
  /\ UNCHANGED <<this, attrs, staleLoads, rafQueue, glPrograms, glTextures,
                 isConnected, leftView, calls, swapPending, staleDone,
                 devicePixelRatio, autoplayBlocked, uploadThrows,
                 contentRect>>

VideoConnect ==
  /\ ~video.isConnected
  /\ CommitVideo([video EXCEPT !.isConnected = TRUE])

VideoDisconnect ==
  /\ video.isConnected
  /\ CommitVideo(cleanupVideo([video EXCEPT !.isConnected = FALSE]))

VideoIntersection ==
  /\ video.isConnected
  /\ \E isIntersecting \in BOOLEAN :
       CommitVideo(IF isIntersecting THEN initializeVideo(video)
                   ELSE cleanupVideo(video))

VideoSetSrc ==
  \E v \in (VideoSrcValues \cup {Absent}) \ {video.src} :
    CommitVideo(loadVideo([video EXCEPT !.src = v], v))

VideoSetPlaying ==
  \E v \in (VideoPlayingValues \cup {Absent}) \ {video.playing} :
    CommitVideo(playingChanged(video, v))

\* the metadata of an element that is loading arrives
VideoLoadedMetadata ==
  \E e \in DOMAIN video.elements :
    /\ ~video.elements[e].loaded
    /\ CommitVideo(onLoadedMetadata(video, e))

\* a queued play or pause event is dispatched to its element's listener
VideoPlayEvent ==
  \E ev \in video.events :
    /\ ev.type = "play"
    /\ CommitVideo(onPlay([video EXCEPT !.events = @ \ {ev}]))

VideoPauseEvent ==
  \E ev \in video.events :
    /\ ev.type = "pause"
    /\ CommitVideo(onPause([video EXCEPT !.events = @ \ {ev}]))

\* a playing video presents a frame: one of its pending callbacks runs
VideoFrame ==
  \E p \in video.pending :
    /\ video.elements[p.el].loaded
    /\ ~video.elements[p.el].paused
    /\ CommitVideo(updateVideoTexture([video EXCEPT !.pending = @ \ {p}]))

----------------------------------------------------------------------------
(* Handlers as actions *)

\* program objects the model stops tracking: those the host has freed
\* (deleted once and no longer the component's program) and those that never
\* were the component's program and that nothing refers to.  Any other
\* object stays in the table.
Released(w) ==
  {p \in DOMAIN w.glPrograms :
     /\ p # w.this.program
     /\ \/ w.glPrograms[p].deletes = 1
        \/ ~w.glPrograms[p].wasActive /\ w.glPrograms[p].deletes = 0}

Survivors(w) == [p \in DOMAIN w.glPrograms \ Released(w) |-> w.glPrograms[p]]

\* the handler's result becomes the next state, within the bounds
Commit(w, stale) ==
  /\ Inflight(w) <= MaxInflight
  /\ this' = w.this
  /\ attrs' = w.attrs
  /\ staleLoads' = w.staleLoads
  /\ rafQueue' = w.rafQueue
  /\ glPrograms' = Survivors(w)
  /\ glTextures' = w.glTextures
  /\ calls' = w.calls
  /\ swapPending' = w.swapPending
  /\ staleDone' = stale
  /\ UNCHANGED <<devicePixelRatio, autoplayBlocked, uploadThrows, contentRect,
                 video>>

\* the state the constructor leaves: no attribute is set yet
Init ==
  /\ this = [gl |-> NULL, canvas |-> NewCanvas, mediaElement |-> NoElement,
             texture |-> NULL, program |-> NULL, animationFrame |-> NULL,
             _buffers |-> NULL, _width |-> NullNum, _height |-> NullNum,
             _naturalWidth |-> NullNum, _naturalHeight |-> NullNum,
             _playing |-> FALSE, _isLoaded |-> FALSE, _hasTexture |-> FALSE,
             _uniforms |-> EmptyObject, _uniformLocations |-> <<>>,
             _isMouseDown |-> FALSE, _mouseData |-> <<0, 0, 0, 0>>]
  /\ attrs = [src |-> Absent, fragmentShader |-> Absent, uniforms |-> Absent,
              width |-> Absent, height |-> Absent, playing |-> Absent,
              loading |-> Absent]
  /\ staleLoads = [IMG |-> 0, VIDEO |-> 0]
  /\ rafQueue = {}
  /\ glPrograms = <<>>
  /\ glTextures = {}
  /\ isConnected = FALSE
  /\ leftView = FALSE
  /\ calls = <<>>
  /\ swapPending = FALSE
  /\ staleDone = FALSE
  /\ devicePixelRatio = 1
  /\ autoplayBlocked = FALSE
  /\ uploadThrows = FALSE
  /\ contentRect = [width |-> 300, height |-> 150]
  /\ video = VideoInit

\* get loading(): the attribute, or 'lazy'
loading(w) == IF Falsy(w.attrs.loading) THEN "lazy" ELSE w.attrs.loading

\* connectedCallback that initialises whatever loading says
connectedCallback_ignoreLoading(w, glOk) ==
  IF ~w.this._isLoaded
    THEN initializeComponent(w, glOk)
    ELSE w

\* connectedCallback()
connectedCallback(w, glOk) ==
  IF loading(w) = "eager" /\ ~w.this._isLoaded
    THEN initializeComponent(w, glOk)
    ELSE w

Connect ==
  /\ ~isConnected
  /\ \E glOk \in BOOLEAN :
       Commit(connectedCallback(World, glOk), FALSE)
  /\ isConnected' = TRUE
  /\ UNCHANGED leftView

\* disconnectedCallback()
Disconnect ==
  /\ isConnected
  /\ Commit(cleanup(World), FALSE)
  /\ isConnected' = FALSE
  /\ leftView' = FALSE

\* the IntersectionObserver callback, for one entry
intersectionCallback(w, isIntersecting, glOk) ==
  IF isIntersecting
    THEN IF ~w.this._isLoaded
           THEN initializeComponent(w, glOk) ELSE w
    ELSE IF w.this._isLoaded THEN cleanup(w) ELSE w

Intersection ==
  /\ isConnected
  /\ \E isIntersecting, glOk \in BOOLEAN :
       /\ Commit(intersectionCallback(World, isIntersecting, glOk),
                 FALSE)
       /\ leftView' = (~isIntersecting /\ (leftView \/ this._isLoaded))
  /\ UNCHANGED isConnected

\* setAttribute / removeAttribute of one observed attribute, and the
\* attributeChangedCallback it triggers; glOk is what getContext returns,
\* which only the handler of loading asks for
SetAttribute(field, name, v, glOk) ==
  Commit(attributeChangedCallback([World EXCEPT !.attrs[field] = v],
                                  name, attrs[field], v, glOk), FALSE)

SetSrc ==
  /\ \E v \in SrcValues \cup {Absent} :
       SetAttribute("src", "src", v, TRUE)
  /\ UNCHANGED <<isConnected, leftView>>

SetFragmentShader ==
  /\ \E v \in FragmentShaderValues \cup {Absent} :
       SetAttribute("fragmentShader", "fragment-shader", v, TRUE)
  /\ UNCHANGED <<isConnected, leftView>>

SetUniforms ==
  /\ \E v \in UniformsValues \cup {Absent} :
       SetAttribute("uniforms", "uniforms", v, TRUE)
  /\ UNCHANGED <<isConnected, leftView>>

SetWidth ==
  /\ \E v \in WidthValues \cup {Absent} :
       SetAttribute("width", "width", v, TRUE)
  /\ UNCHANGED <<isConnected, leftView>>

SetHeight ==
  /\ \E v \in HeightValues \cup {Absent} :
       SetAttribute("height", "height", v, TRUE)
  /\ UNCHANGED <<isConnected, leftView>>

SetPlaying ==
  /\ \E v \in PlayingValues \cup {Absent} :
       SetAttribute("playing", "playing", v, TRUE)
  /\ UNCHANGED <<isConnected, leftView>>

SetLoading ==
  /\ \E v \in LoadingValues \cup {Absent}, glOk \in BOOLEAN :
       SetAttribute("loading", "loading", v, glOk)
  /\ UNCHANGED <<isConnected, leftView>>

\* a pending animation-frame callback fires
Tick ==
  /\ \E h \in rafQueue :
       Commit(Caught(render([World EXCEPT !.rafQueue = @ \ {h}])), FALSE)
  /\ UNCHANGED <<isConnected, leftView>>

\* the fragment-shader attribute is set to a shader that reads uMouse
SetMouseShader ==
  /\ SetAttribute("fragmentShader", "fragment-shader", FragMouse, TRUE)
  /\ UNCHANGED <<isConnected, leftView>>

\* mouse events reach the listeners connectedCallback has added
MouseDown ==
  /\ isConnected
  /\ \E event \in MouseEvents : Commit(_onMouseDown(World, event), FALSE)
  /\ UNCHANGED <<isConnected, leftView>>

MouseMove ==
  /\ isConnected
  /\ \E event \in MouseEvents : Commit(_onMouseMove(World, event), FALSE)
  /\ UNCHANGED <<isConnected, leftView>>

MouseUp ==
  /\ isConnected
  /\ Commit(_onMouseUp(World), FALSE)
  /\ UNCHANGED <<isConnected, leftView>>

MouseLeave ==
  /\ isConnected
  /\ Commit(_onMouseUp(World), FALSE)
  /\ UNCHANGED <<isConnected, leftView>>

\* the load of the held element succeeds: load / loadedmetadata fires
MediaLoaded ==
  /\ this.mediaElement # NoElement
  /\ this.mediaElement.state = "loading"
  /\ Commit(Caught(loadHandler(
              [World EXCEPT !.this.mediaElement.state = "loaded"],
              this.mediaElement.tag)), FALSE)
  /\ UNCHANGED <<isConnected, leftView>>

\* the load of an element the component no longer holds succeeds
StaleMediaLoaded ==
  /\ \E tag \in {"IMG", "VIDEO"} :
       /\ staleLoads[tag] > 0
       /\ Commit(Caught(loadHandler(
                   [World EXCEPT !.staleLoads[tag] = @ - 1], tag)), TRUE)
  /\ UNCHANGED <<isConnected, leftView>>

\* the load of the held element fails: error fires, the promise is rejected
MediaError ==
  /\ this.mediaElement # NoElement
  /\ this.mediaElement.state = "loading"
  /\ Commit(loadFailed([World EXCEPT !.this.mediaElement.state = "error"]),
            FALSE)
  /\ UNCHANGED <<isConnected, leftView>>

\* the load of an element the component no longer holds fails
StaleMediaError ==
  /\ \E tag \in {"IMG", "VIDEO"} :
       /\ staleLoads[tag] > 0
       /\ Commit(loadFailed([World EXCEPT !.staleLoads[tag] = @ - 1]), FALSE)
  /\ UNCHANGED <<isConnected, leftView>>

\* the handlers that drive the program, the media and the render loop
Next ==
  \/ Connect
  \/ Disconnect
  \/ Intersection
  \/ SetLoading
  \/ SetSrc
  \/ SetFragmentShader
  \/ Tick
  \/ MediaLoaded
  \/ StaleMediaLoaded
  \/ MediaError
  \/ StaleMediaError

Spec == Init /\ [][Next]_vars

\* the handlers that drive the uniform set
NextUniforms ==
  \/ Connect
  \/ Disconnect
  \/ Intersection
  \/ SetLoading
  \/ SetUniforms
  \/ SetFragmentShader
  \/ Tick

SpecUniforms == Init /\ [][NextUniforms]_vars

\* the loading attribute is set to "lazy"
SetLoadingLazy ==
  /\ \E glOk \in BOOLEAN : SetAttribute("loading", "loading", "lazy", glOk)
  /\ UNCHANGED <<isConnected, leftView>>

\* the window moves to a screen of another device pixel ratio; no handler
\* of the component runs
ChangeDpr ==
  /\ \E d \in DprValues \ {devicePixelRatio} : devicePixelRatio' = d
  /\ calls' = <<>>
  /\ staleDone' = FALSE
  /\ UNCHANGED <<this, attrs, staleLoads, rafQueue, glPrograms, glTextures,
                 isConnected, leftView, swapPending, autoplayBlocked,
                 uploadThrows, contentRect, video>>

\* the host's autoplay policy changes (the user interacts with the page, or
\* the page loses its activation); no handler of the component runs
ChangeAutoplayPolicy ==
  /\ autoplayBlocked' = ~autoplayBlocked
  /\ calls' = <<>>
  /\ staleDone' = FALSE
  /\ UNCHANGED <<this, attrs, staleLoads, rafQueue, glPrograms, glTextures,
                 isConnected, leftView, swapPending, devicePixelRatio,
                 uploadThrows, contentRect, video>>

\* the host starts or stops refusing to read the media's pixels; no handler
\* of the component runs
ChangeUploadOutcome ==
  /\ uploadThrows' = ~uploadThrows
  /\ calls' = <<>>
  /\ staleDone' = FALSE
  /\ UNCHANGED <<this, attrs, staleLoads, rafQueue, glPrograms, glTextures,
                 isConnected, leftView, swapPending, devicePixelRatio,
                 autoplayBlocked, contentRect, video>>

\* a uniforms attribute whose values have every shape
SetUniformsShapes ==
  /\ \E v \in ShapeValues : SetAttribute("uniforms", "uniforms", v, TRUE)
  /\ UNCHANGED <<isConnected, leftView>>

\* a fragment-shader attribute that declares a uniform of every type
SetFragmentShaderShapes ==
  /\ SetAttribute("fragmentShader", "fragment-shader", FragShapes, TRUE)
  /\ UNCHANGED <<isConnected, leftView>>

\* the container gives the element another layout box: connectedCallback
\* registers an IntersectionObserver and mouse listeners but nothing that
\* observes the element's size, so no handler of the component runs
ContainerResize ==
  /\ \E box \in BoxValues \ {contentRect} : contentRect' = box
  /\ calls' = <<>>
  /\ staleDone' = FALSE
  /\ UNCHANGED <<this, attrs, staleLoads, rafQueue, glPrograms, glTextures,
                 isConnected, leftView, swapPending, devicePixelRatio,
                 autoplayBlocked, uploadThrows, video>>

\* the handlers that drive the canvas size and the playback
NextSize ==
  \/ Connect
  \/ Disconnect
  \/ Intersection
  \/ SetSrc
  \/ SetWidth
  \/ SetHeight
  \/ SetPlaying
  \/ Tick
  \/ MediaLoaded
  \/ StaleMediaLoaded
  \/ MediaError
  \/ StaleMediaError

SpecSize == Init /\ [][NextSize]_vars

\* the handlers that drive the playback of a video, under either autoplay
\* policy
NextPlay ==
  \/ ChangeAutoplayPolicy
  \/ Connect
  \/ Disconnect
  \/ Intersection
  \/ SetSrc
  \/ SetPlaying
  \/ MediaLoaded
  \/ StaleMediaLoaded

SpecPlay == Init /\ [][NextPlay]_vars

\* the handlers that upload the media element to the texture, with uploads
\* that succeed or throw
NextUpload ==
  \/ ChangeUploadOutcome
  \/ Connect
  \/ Disconnect
  \/ Intersection
  \/ SetSrc
  \/ Tick
  \/ MediaLoaded
  \/ StaleMediaLoaded

SpecUpload == Init /\ [][NextUpload]_vars

\* the handlers that size the canvas, in a container that changes size
NextResize ==
  \/ ContainerResize
  \/ ChangeDpr
  \/ Connect
  \/ Disconnect
  \/ Intersection
  \/ SetWidth
  \/ SetHeight
  \/ Tick

SpecResize == Init /\ [][NextResize]_vars

\* the handlers of the variant that subscribe, renew and cancel its
\* video-frame callback
NextVideo ==
  \/ VideoConnect
  \/ VideoDisconnect
  \/ VideoIntersection
  \/ VideoSetSrc
  \/ VideoSetPlaying
  \/ VideoLoadedMetadata
  \/ VideoPlayEvent
  \/ VideoPauseEvent
  \/ VideoFrame

SpecVideo == Init /\ [][NextVideo]_vars

\* the handlers that resolve and apply the custom uniforms, with uniform
\* values of every shape
NextDispatch ==
  \/ Connect
  \/ Disconnect
  \/ Intersection
  \/ SetUniformsShapes
  \/ SetFragmentShaderShapes
  \/ SetFragmentShader
  \/ Tick

SpecDispatch == Init /\ [][NextDispatch]_vars

\* the handlers that resize the canvas, on screens of any device pixel ratio
NextCanvas ==
  \/ ChangeDpr
  \/ Connect
  \/ Disconnect
  \/ Intersection
  \/ SetSrc
  \/ SetWidth
  \/ SetHeight
  \/ MediaLoaded
  \/ StaleMediaLoaded

SpecCanvas == Init /\ [][NextCanvas]_vars

\* the handlers that decide when the component is initialised
NextLazy ==
  \/ Connect
  \/ Disconnect
  \/ Intersection
  \/ SetLoading
  \/ SetLoadingLazy
  \/ SetSrc
  \/ Tick
  \/ MediaLoaded
  \/ StaleMediaLoaded

SpecLazy == Init /\ [][NextLazy]_vars

\* the attribute changes of an element that is configured before it is
\* first shown
NextConfig ==
  \/ Connect
  \/ Disconnect
  \/ SetSrc
  \/ SetFragmentShader
  \/ SetUniforms
  \/ SetWidth
  \/ SetHeight
  \/ SetPlaying

SpecConfig == Init /\ [][NextConfig]_vars

\* the handlers that drive the mouse uniform
NextMouse ==
  \/ Connect
  \/ Disconnect
  \/ Intersection
  \/ SetMouseShader
  \/ Tick
  \/ MouseDown
  \/ MouseMove
  \/ MouseUp
  \/ MouseLeave

SpecMouse == Init /\ [][NextMouse]_vars

----------------------------------------------------------------------------
(* Properties *)

\* the places of the calls of op in a call log
Places(log, op) == {i \in 1..Len(log) : log[i].op = op}

\* the fragment shader source a fragment-shader attribute value stands for
SourceOf(v) == IF Falsy(v) THEN DefaultFragmentShader ELSE v

\* what one updateShader(source) call must have done, given the program
\* that was active before it, the program active after the handler and the
\* handler's call log
Swapped(old, source) ==
  LET new == this'.program
      dels == Places(calls', "deleteProgram")
  IN IF Compiles(source) /\ Links(source)
       THEN /\ new # NULL
            /\ new # old
            /\ glPrograms'[new].source = source
            /\ glPrograms'[new].deletes = 0
            /\ \A i \in dels :
                 /\ calls'[i].arg # new
                 /\ \E j \in Places(calls', "linkProgram") :
                      j < i /\ calls'[j].arg = new
            /\ old # NULL => \E i \in dels : calls'[i].arg = old
       ELSE /\ new = old
            /\ dels = {}
            /\ old # NULL => glPrograms'[old].deletes = 0

\* C1: an updateShader call made while a context exists, from a change of
\* the fragment-shader attribute, makes the new program the active one and
\* deletes the old one, after the link, if the source compiles and links;
\* otherwise the old program stays active and nothing is deleted.
C1_AtomicSwap ==
  [][(attrs'.fragmentShader # attrs.fragmentShader /\ this.gl # NULL)
       => Swapped(this.program, SourceOf(attrs'.fragmentShader))]_vars

C1_Witness ==
  /\ this.program # NULL
  /\ glPrograms[this.program].source = FragTint
  /\ Places(calls, "deleteProgram") # {}
  /\ Places(calls, "getContext") = {}

\* C2: on an initialised component with no media load in flight, a program
\* that updateShader has swapped in and that has not drawn yet has a frame
\* scheduled.
C2_NextFrameUsesNewProgram ==
  (this._isLoaded /\ swapPending /\ Inflight(World) = 0) => rafQueue # {}

\* C3: a program object that was the active program and no longer is has
\* been deleted exactly once, and no program object is deleted twice.
C3_ReleasedExactlyOnce ==
  \A p \in DOMAIN glPrograms :
    /\ glPrograms[p].deletes <= 1
    /\ (glPrograms[p].wasActive /\ p # this.program)
         => glPrograms[p].deletes = 1
    /\ p = this.program => glPrograms[p].deletes = 0

C3_Witness ==
  /\ this.program # NULL
  /\ glPrograms[this.program].source = DefaultFragmentShader
  /\ \E i \in Places(calls, "deleteProgram") : calls[i].arg # this.program
  /\ Places(calls, "getContext") = {}

\* the strings of the uniforms attribute that JSON.parse rejects
MalformedUniforms == {u \in UniformsValues : ~JSONParse(u).ok}

\* C4: when the uniforms attribute is a string that does not parse, whether
\* it was just set or is applied at initialisation, this._uniforms keeps its
\* value and updateUniforms throws nothing.
C4_MalformedUniformsKeepPrevious ==
  [][attrs'.uniforms \in MalformedUniforms
       => /\ this'._uniforms = this._uniforms
          /\ ~updateUniforms(World, attrs'.uniforms).exc]_vars

C4_Witness ==
  /\ attrs.uniforms \in MalformedUniforms
  /\ this._uniforms # EmptyObject
  /\ this.program # NULL

\* the place of a teardown call in the fixed order
TeardownRank(op) ==
  CASE op = "cancelAnimationFrame" -> 1
    [] op = "pause" -> 2
    [] op = "deleteBuffer" -> 3
    [] op = "deleteTexture" -> 4
    [] op = "deleteProgram" -> 5
    [] op = "loseContext" -> 6
    [] OTHER -> 0

\* C5: in the call log of a handler that tore the component down, the
\* teardown calls appear in the order cancel frame, pause video, delete
\* buffers, delete texture, delete program, lose context.
C5_TeardownOrder ==
  Places(calls, "loseContext") # {}
    => \A i, j \in 1..Len(calls) :
         (i < j /\ TeardownRank(calls[i].op) > 0
                /\ TeardownRank(calls[j].op) > 0)
           => TeardownRank(calls[i].op) <= TeardownRank(calls[j].op)

C5_Witness ==
  \A r \in 1..6 : \E i \in 1..Len(calls) : TeardownRank(calls[i].op) = r

\* C6: at most one render frame callback is pending.
C6_OneRenderLoop == Cardinality(rafQueue) <= 1

C6_Witness ==
  /\ rafQueue # {}
  /\ \E i \in Places(calls, "cancelAnimationFrame") :
       \E j \in Places(calls, "requestAnimationFrame") : i < j

\* C7: a frame is pending only while a context and a program exist, and a
\* run of the render callback that finds either missing leaves no frame
\* pending.
C7_FrameOnlyWithContextAndProgram ==
  /\ rafQueue # {} => (this.gl # NULL /\ this.program # NULL)
  /\ (this.gl = NULL \/ this.program = NULL)
       => LET r == render(World)
          IN r.rafQueue = {} /\ r.this.animationFrame = NULL

C7_Witness ==
  /\ rafQueue # {}
  /\ this.mediaElement # NoElement
  /\ isConnected

\* C8: the completion of a load whose element the component no longer holds
\* changes nothing in the component, the textures or the pending frames.
C8_StaleLoadChangesNothing ==
  [][staleDone'
       => /\ this' = this
          /\ rafQueue' = rafQueue
          /\ glTextures' = glTextures]_vars

\* C9: after its first load, while the most recent intersection notification
\* is one that reported the element as not intersecting, the component is
\* torn down: no context, program, texture or pending frame, and _isLoaded
\* false.
C9_VisibilityWins ==
  leftView
    => /\ ~this._isLoaded
       /\ this.gl = NULL
       /\ this.program = NULL
       /\ this.texture = NULL
       /\ rafQueue = {}

\* C10: when a media load fails on an initialised component, the render
\* loop is running afterwards.
C10_LoadFailureKeepsLoop ==
  [][(this.mediaElement # NoElement /\ this'.mediaElement = NoElement
        /\ this'._isLoaded)
       => rafQueue' # {}]_vars

\* C11: a step in which a media load error clears the element handle leaves
\* the texture-presence flag false, and the catch block of loadMedia always
\* leaves the handle cleared.
C11_LoadErrorClearsTexture ==
  [][/\ loadFailed(World).this.mediaElement = NoElement
     /\ (this.mediaElement # NoElement /\ this'.mediaElement = NoElement)
          => ~this'._hasTexture]_vars

\* the handler that ran last drew a frame
FrameDrawn == Places(calls, "drawArrays") # {}

\* the values of uHasTexture the handler that ran last pushed
HasTexturePushed == {calls[i].arg : i \in Places(calls, "uHasTexture")}

\* C12: with no fragment shader configured, a frame drawn while the held
\* media element is an image that has loaded pushes uHasTexture = 1.
C12_ImageFrameHasTexture ==
  (/\ FrameDrawn
   /\ Falsy(attrs.fragmentShader)
   /\ this.mediaElement # NoElement
   /\ this.mediaElement.tag = "IMG"
   /\ this.mediaElement.state = "loaded")
    => HasTexturePushed = {1}

\* C13: while src is removed, no load is in flight and the texture-presence
\* flag is false, as the removal left it, a frame drawn with a program that
\* declares uHasTexture pushes uHasTexture = 0.
C13_RemovedSrcNoTexture ==
  [][(/\ attrs.src = Absent
      /\ attrs'.src = Absent
      /\ Inflight(World) = 0
      /\ ~this._hasTexture
      /\ FrameDrawn'
      /\ "uHasTexture" \in DOMAIN this'._uniformLocations)
       => {calls'[i].arg : i \in Places(calls', "uHasTexture")} = {0}]_vars

\* the entries of the uniform set that name a uniform the active program
\* declares, with a value applyUniforms can bind
DeclaredUniforms ==
  IF this.program = NULL THEN {}
  ELSE {e \in {this._uniforms.entries[i] : i \in 1..Len(this._uniforms.entries)} :
          /\ e.name \in ActiveUniforms(glPrograms[this.program].source)
          /\ UniformCall(e.value) # "skip"}

\* C14: whenever a frame is drawn, every uniform of the current uniform set
\* that the active program declares has a handle resolved against that
\* program, and the frame binds its value.
C14_DeclaredUniformBound ==
  FrameDrawn
    => \A e \in DeclaredUniforms :
         /\ e.name \in DOMAIN this._uniformLocations
         /\ this._uniformLocations[e.name].program = this.program
         /\ \E i \in 1..Len(calls) :
              calls[i] = [op |-> UniformCall(e.value),
                          arg |-> [name |-> e.name,
                                   args |-> UniformArgs(e.value)]]

C14_Witness ==
  /\ FrameDrawn
  /\ DeclaredUniforms # {}
  /\ Places(calls, "getContext") # {}
  /\ Places(calls, "uniform3f") # {}

\* C15: the click components of _mouseData are positive while the pointer
\* is held down, and a release (mouseup or mouseleave) leaves each at the
\* negated absolute value of what it held.
C15_ClickSignEncodesButton ==
  [][/\ this'._isMouseDown
          => (this'._mouseData[3] > 0 /\ this'._mouseData[4] > 0)
     /\ (this._isMouseDown /\ ~this'._isMouseDown)
          => /\ this'._mouseData[3] = -Abs(this._mouseData[3])
             /\ this'._mouseData[4] = -Abs(this._mouseData[4])]_vars

----------------------------------------------------------------------------
(* C16 *)

\* only the width is configured and the media element has loaded
WidthOnlyLoaded ==
  /\ Truthy(this._width)
  /\ ~Truthy(this._height)
  /\ this.canvas # NoCanvas
  /\ this.mediaElement # NoElement
  /\ this.mediaElement.state = "loaded"

\* round(width * naturalHeight / naturalWidth), in exact arithmetic
AspectHeight ==
  Round(this._width * NaturalHeight(this.mediaElement.src),
        NaturalWidth(this.mediaElement.src))

\* the canvas after updateCanvasSize() runs in the current state
Resized == updateCanvasSize(World).this.canvas

\* C16 as stated: with only the width configured and a loaded media element,
\* the backing-store height that updateCanvasSize() sets is
\* round(width * naturalHeight / naturalWidth), whatever the device pixel
\* ratio
C16_HeightIsAspectHeight ==
  WidthOnlyLoaded => Resized.height = AspectHeight

\* C16 amended: with only the width configured and a loaded media element,
\* updateCanvasSize() sets the backing-store height to
\* round(cssHeight * devicePixelRatio), where cssHeight is
\* Math.round(width * (naturalHeight / naturalWidth)) as double arithmetic
\* evaluates it: round(width * naturalHeight / naturalWidth), or one less
\* where the exact product is a half and the double product lies below it;
\* and a load that completes leaves the canvas with that height
C16_HeightIsScaledCssHeight ==
  [][/\ WidthOnlyLoaded =>
          \E cssHeight \in {AspectHeight, AspectHeight - 1} :
            /\ cssHeight = AspectHeight
                 <=> <<this._width, NaturalHeight(this.mediaElement.src),
                       NaturalWidth(this.mediaElement.src)>> \notin HalfBelow
            /\ Resized.height = cssHeight * devicePixelRatio
     /\ (/\ WidthOnlyLoaded'
         /\ this.mediaElement # NoElement
         /\ this.mediaElement.state = "loading"
         /\ Truthy(this._width)
         /\ ~Truthy(this._height))
          => this'.canvas = Resized']_vars

\* a load completed on a screen of device pixel ratio 2 with only the width
\* configured, and the canvas has twice the aspect-ratio height
C16_Witness ==
  /\ WidthOnlyLoaded
  /\ devicePixelRatio = 2
  /\ Places(calls, "texImage2D") # {}
  /\ this.canvas.height = 2 * AspectHeight
  /\ this.canvas = Resized

----------------------------------------------------------------------------
(* C17 *)

\* the element comes into view and a context is available; what the
\* callback throws ends with the callback
Show(w) == Caught(intersectionCallback(w, TRUE, TRUE))

\* the element leaves the view
Hide(w) == Caught(intersectionCallback(w, FALSE, TRUE))

\* the load of the held element, if one is in flight, settles: it succeeds
\* when ok, and fails otherwise
Settle(w, ok) ==
  IF w.this.mediaElement # NoElement /\ w.this.mediaElement.state = "loading"
    THEN IF ok
           THEN Caught(loadHandler(
                         [w EXCEPT !.this.mediaElement.state = "loaded"],
                         w.this.mediaElement.tag))
           ELSE loadFailed([w EXCEPT !.this.mediaElement.state = "error"])
    ELSE w

\* the pending frame, if there is one, runs
Frame(w) ==
  IF w.rafQueue = {} THEN w
  ELSE LET h == CHOOSE h \in w.rafQueue : TRUE
       IN Caught(render([w EXCEPT !.rafQueue = @ \ {h}]))

\* what a frame's output depends on: the source of the active program, the
\* uniform set, the names whose handles are resolved against the active
\* program, the texture flag and the backing-store size
RenderRelevant(w) ==
  LET t == w.this
  IN [shader |-> IF t.program = NULL THEN "<none>"
                 ELSE w.glPrograms[t.program].source,
      uniforms |-> t._uniforms,
      handles |-> {n \in DOMAIN t._uniformLocations :
                     t._uniformLocations[n].program = t.program},
      hasTexture |-> t._hasTexture,
      canvas |-> t.canvas,
      looping |-> w.rafQueue # {}]

\* a single initialise, the load settled and a frame drawn
ShownOnce(w, ok) == Frame(Settle(Show(w), ok))

\* initialise, teardown, initialise: the teardown comes after the load has
\* settled, or after a frame has been drawn as well, or while the load is in
\* flight, and then the load settles after or before the second initialise
ShownTwice(w, ok) ==
  {Frame(Settle(Show(Hide(Settle(Show(w), ok))), ok)),
   Frame(Settle(Show(Hide(Frame(Settle(Show(w), ok)))), ok)),
   Frame(Settle(Show(Hide(Show(w))), ok)),
   Frame(Settle(Show(Settle(Hide(Show(w)), ok)), ok))}

\* C17: for every configuration of an element that has not been shown yet,
\* and whether its media loads or fails to load, initialise, teardown,
\* initialise leaves, once the media load has settled and a frame is drawn,
\* the render-relevant state that a single initialise leaves
C17_ToggleIdempotent ==
  ~this._isLoaded =>
    \A ok \in BOOLEAN :
      \A w \in ShownTwice(World, ok) :
        RenderRelevant(w) = RenderRelevant(ShownOnce(World, ok))

----------------------------------------------------------------------------
(* C18 *)

\* the values an observed attribute can have, absent among them
AttributeValues(name) ==
  {Absent} \cup
    CASE name = "src" -> SrcValues
      [] name = "fragment-shader" -> FragmentShaderValues \cup {FragMouse}
      [] name = "width" -> WidthValues
      [] name = "height" -> HeightValues
      [] name = "uniforms" -> UniformsValues
      [] name = "playing" -> PlayingValues
      [] name = "loading" -> LoadingValues \cup {"lazy"}
      [] OTHER -> {""}

\* C18: attributeChangedCallback with a new value equal to the old one
\* changes nothing and calls nothing (no load, no compile, no resize, no
\* playback call, no initialisation), for every observed attribute and every
\* value of it, in every state
C18_SameValueIsNoOp ==
  \A name \in observedAttributes, glOk \in BOOLEAN :
    \A v \in AttributeValues(name) :
      attributeChangedCallback(World, name, v, v, glOk) = World

\* an initialised component that holds a loaded element and has a frame
\* pending, after a handler that called nothing: setting src to the value
\* it has would otherwise re-attach the element and restart the render loop
C18_Witness ==
  /\ this._isLoaded
  /\ this.mediaElement # NoElement
  /\ this.mediaElement.state = "loaded"
  /\ attrs.src = this.mediaElement.src
  /\ rafQueue # {}
  /\ calls = <<>>

----------------------------------------------------------------------------
(* C19 *)

\* the observer reports the element as intersecting
IntersectingNotification ==
  /\ isConnected
  /\ \E glOk \in BOOLEAN :
       Commit(intersectionCallback(World, TRUE, glOk), FALSE)
  /\ leftView' = FALSE
  /\ UNCHANGED isConnected

\* the host calls that create a context, a program, a buffer, a texture, a
\* media load or a frame
CreatingCalls ==
  {"getContext", "createProgram", "createBuffer", "createTexture", "load",
   "drawArrays", "requestAnimationFrame"}

\* C19: while loading is absent or "lazy", a handler that finds the
\* component not initialised creates no context, program, media load or
\* frame and leaves it not initialised, unless it is the observer's
\* notification that the element is intersecting; and that notification
\* initialises a component that is not initialised: it asks for a context
\* and, when it gets one, leaves a program and marks the component loaded
C19_LazyWaitsForIntersection ==
  [][(~this._isLoaded /\ loading(World) = "lazy"
        /\ loading([attrs |-> attrs']) = "lazy") =>
       IF IntersectingNotification
         THEN /\ Places(calls', "getContext") # {}
              /\ this'.gl # NULL => (this'._isLoaded /\ this'.program # NULL)
         ELSE /\ ~this'._isLoaded
              /\ this'.gl = NULL
              /\ this'.program = NULL
              /\ rafQueue' = {}
              /\ \A i \in DOMAIN calls' : calls'[i].op \notin CreatingCalls
              /\ this.mediaElement = NoElement
                   => this'.mediaElement = NoElement]_vars

\* the notification has initialised a component whose loading is absent or
\* "lazy" and whose src is set: the load is in flight
C19_Witness ==
  /\ loading(World) = "lazy"
  /\ attrs.src # Absent
  /\ Places(calls, "getContext") # {}
  /\ Places(calls, "load") # {}
  /\ this._isLoaded

----------------------------------------------------------------------------
(* C20 *)

\* C20: a handler that finds the component without a context and leaves it
\* without one (getContext, if the handler calls it, returns null) creates no
\* program, buffer or texture, starts no media load, draws and schedules no
\* frame, and leaves the component not initialised
C20_NoContextNoRendering ==
  [][(this.gl = NULL /\ this'.gl = NULL) =>
       /\ ~this'._isLoaded
       /\ this'.program = NULL
       /\ this'._buffers = NULL
       /\ this'.texture = NULL
       /\ glTextures' = {}
       /\ rafQueue' = {}
       /\ \A i \in DOMAIN calls' :
            calls'[i].op \notin CreatingCalls \ {"getContext"}
       /\ this.mediaElement = NoElement => this'.mediaElement = NoElement]_vars

\* an initialisation was refused a context although src is set and loading
\* is eager: all the handler did was ask for the context
C20_Witness ==
  /\ attrs.src # Absent
  /\ attrs.loading = "eager"
  /\ calls = <<[op |-> "getContext", arg |-> 0]>>
  /\ this.gl = NULL
  /\ ~this._isLoaded
  /\ this.mediaElement = NoElement

----------------------------------------------------------------------------
(* C21 *)

\* the handler that ran last requested play() and the host rejected it
PlayRejected == Places(calls, "warn") # {}

\* C21: a handler in which the host rejects play() ends without an
\* exception, with _playing false, and a handler that runs while _playing is
\* unchanged and the playing attribute is unchanged requests play() no more
C21_RejectedPlayIsPaused ==
  [][/\ PlayRejected' => ~this'._playing
     /\ (PlayRejected /\ attrs'.playing = attrs.playing /\ autoplayBlocked')
          => Places(calls', "play") = {}]_vars

----------------------------------------------------------------------------
(* C22 *)

\* C22: whenever a frame is pending, the render tick that runs it completes
\* without throwing
C22_TickNeverThrows ==
  \A h \in rafQueue : ~render([World EXCEPT !.rafQueue = @ \ {h}]).exc

----------------------------------------------------------------------------
(* C23 *)

\* C23: every upload of the media element to the texture that a handler
\* makes is of an element that has finished loading
C23_UploadOnlyWhenLoaded ==
  \A i \in Places(calls, "texImage2D") : calls[i].arg = "loaded"

----------------------------------------------------------------------------
(* C24 *)

\* the handler that ran last compiled a shader stage that failed to compile
CompileFailed ==
  \E i \in Places(calls, "createShader") : ~Compiles(calls[i].arg)

\* C24: a handler in which a shader stage fails to compile deletes every
\* shader object it created
C24_FailedCompileDiscardsShaders ==
  CompileFailed =>
    Cardinality(Places(calls, "deleteShader"))
      = Cardinality(Places(calls, "createShader"))

----------------------------------------------------------------------------
(* C25 *)

\* the handler that ran last linked a program, and every stage it compiled
\* compiled and linked
LinkedOnly ==
  /\ Places(calls, "linkProgram") # {}
  /\ \A i \in Places(calls, "createShader") :
       Compiles(calls[i].arg) /\ Links(calls[i].arg)

\* C25: a handler whose links all succeed, at initialisation or on a shader
\* update, deletes every vertex and fragment shader object it created
C25_LinkedShadersReleased ==
  LinkedOnly =>
    Cardinality(Places(calls, "deleteShader"))
      = Cardinality(Places(calls, "createShader"))

----------------------------------------------------------------------------
(* C26 *)

\* the built-in uniforms that the active program declares
DeclaredBuiltins ==
  IF this.program = NULL THEN {}
  ELSE {BuiltinUniforms[i] : i \in 1..Len(BuiltinUniforms)}
         \cap ActiveUniforms(glPrograms[this.program].source)

\* C26: whenever a frame is drawn, the handle map holds, for every built-in
\* uniform the active program declares, a handle resolved against that
\* program
C26_BuiltinHandlesResolved ==
  FrameDrawn =>
    \A n \in DeclaredBuiltins :
      /\ n \in DOMAIN this._uniformLocations
      /\ this._uniformLocations[n].program = this.program

----------------------------------------------------------------------------
(* C27 *)

\* the handler that ran last uploaded the media element while the host
\* refuses the upload
UploadFailed == uploadThrows /\ Places(calls, "texImage2D") # {}

\* C27: a handler whose upload of the media element fails still draws its
\* frame and schedules the next one, and leaves _hasTexture false
C27_UploadFailureIsCaught ==
  UploadFailed => (FrameDrawn /\ rafQueue # {} /\ ~this._hasTexture)

----------------------------------------------------------------------------
(* C28 *)

\* C28: whenever a frame is drawn, the component holds a texture object that
\* the host has not deleted (what the texture holds when no media is loaded
\* presupposes that it exists)
C28_FrameHasTexture ==
  FrameDrawn => (this.texture # NULL /\ this.texture \in glTextures)

----------------------------------------------------------------------------
(* C29 *)

\* C29: when the container gives an initialised component another layout
\* box, the backing-store size becomes that box times the device pixel
\* ratio if neither width nor height is configured, and stays as it is
\* otherwise
C29_ResizeFollowsLayoutBox ==
  [][(contentRect' # contentRect /\ isConnected /\ this._isLoaded) =>
       IF attrs.width = Absent /\ attrs.height = Absent
         THEN this'.canvas =
                [width |-> contentRect'.width * devicePixelRatio,
                 height |-> contentRect'.height * devicePixelRatio]
         ELSE this'.canvas = this.canvas]_vars

----------------------------------------------------------------------------
(* C30 *)

\* the call a value of each shape is to be dispatched to, as <<entry point,
\* numbers>>, or <<>> for a shape that is to be skipped
ShapeDispatch(value) ==
  IF value.kind = "array"
    THEN CASE Len(value.v) = 2 -> <<"uniform2f", value.v>>
           [] Len(value.v) = 3 -> <<"uniform3f", value.v>>
           [] Len(value.v) = 4 -> <<"uniform4f", value.v>>
           [] Len(value.v) = 9 -> <<"uniformMatrix3fv", value.v>>
           [] Len(value.v) = 16 -> <<"uniformMatrix4fv", value.v>>
           [] OTHER -> <<>>
  ELSE IF value.kind = "number"
    THEN IF value.num % value.den = 0
           THEN <<"uniform1i", <<value.num \div value.den>>>>
           ELSE <<"uniform1f", <<value.num, value.den>>>>
  ELSE IF value.kind = "boolean"
    THEN <<"uniform1i", <<IF value.b THEN 1 ELSE 0>>>>
  ELSE <<>>

\* the calls the current uniform set is to be dispatched to: one for each
\* member whose name has a resolved handle and whose shape is dispatched
Dispatched ==
  LET IsDispatched(e) == /\ e.name \in DOMAIN this._uniformLocations
                         /\ ShapeDispatch(e.value) # <<>>
      kept == SelectSeq(this._uniforms.entries, IsDispatched)
  IN [i \in 1..Len(kept) |->
        [op |-> ShapeDispatch(kept[i].value)[1],
         arg |-> [name |-> kept[i].name,
                  args |-> ShapeDispatch(kept[i].value)[2]]]]

UniformEntryPoints ==
  {"uniform1i", "uniform1f", "uniform2f", "uniform3f", "uniform4f",
   "uniformMatrix3fv", "uniformMatrix4fv"}

\* the gl.uniform* calls of the handler that has just run
UniformCalls ==
  LET IsUniform(c) == c.op \in UniformEntryPoints
  IN SelectSeq(calls, IsUniform)

C30_WitnessSkipped ==
  /\ FrameDrawn
  /\ attrs.uniforms = U_SKIPPED
  /\ attrs.fragmentShader = FragShapes
  /\ {"uColor", "uOffset", "uGain", "uCount", "uFlag"}
       \subseteq DOMAIN this._uniformLocations
  /\ "uGhost" \notin DOMAIN this._uniformLocations
  /\ UniformCalls = <<>>

\* a frame drawn with the three vectors and the two matrices resolved
C30_WitnessVectors ==
  /\ FrameDrawn
  /\ attrs.uniforms = U_VECTORS
  /\ Places(calls, "uniform2f") # {}
  /\ Places(calls, "uniform4f") # {}
  /\ Places(calls, "uniformMatrix3fv") # {}
  /\ Places(calls, "uniformMatrix4fv") # {}

----------------------------------------------------------------------------
(* C31 *)

\* C31: in every state, a cleanup that follows a cleanup with nothing in
\* between makes no host call and leaves every field as the first one left
\* it
C31_SecondCleanupIsNoOp ==
  LET once == [cleanup(World) EXCEPT !.calls = <<>>]
  IN cleanup(once) = once

\* the component has left the viewport while it held a video and had a frame
\* scheduled: cleanup has torn it down, and the unmount that may follow runs
\* cleanup again
C31_Witness ==
  /\ leftView
  /\ isConnected
  /\ ~this._isLoaded
  /\ this.mediaElement # NoElement
  /\ this.mediaElement.tag = "VIDEO"
  /\ Places(calls, "loseContext") # {}
  /\ Places(calls, "cancelAnimationFrame") # {}

----------------------------------------------------------------------------
(* C32 *)

\* the component is unmounted: disconnectedCallback runs
Unmounted == isConnected /\ ~isConnected'

\* the src attribute changes to a URL other than that of the held element,
\* or is removed
SrcReplaced ==
  /\ attrs'.src # attrs.src
  /\ this.mediaElement # NoElement
  /\ this.mediaElement.src # attrs'.src

\* C32: after disconnectedCallback the component holds no media element,
\* and after src changes to another URL the component no longer holds the
\* element it held for the previous URL
C32_MediaDestroyedOrReplaced ==
  [][/\ Unmounted => this'.mediaElement = NoElement
     /\ SrcReplaced => (\/ this'.mediaElement = NoElement
                        \/ this'.mediaElement.src # this.mediaElement.src)]_vars

\* the two halves of C32, each on its own
C32_UnmountOnly == [][Unmounted => this'.mediaElement = NoElement]_vars

C32_ReplaceOnly ==
  [][SrcReplaced => (\/ this'.mediaElement = NoElement
                     \/ this'.mediaElement.src # this.mediaElement.src)]_vars

----------------------------------------------------------------------------
(* C33 *)

\* the playing flag the attribute stands for: absent counts as true
PlayingFlag(a) == a.playing # "false"

\* after the step an initialised component holds a video that has loaded
\* and that the host lets play
VideoShown ==
  /\ this'._isLoaded
  /\ this'.mediaElement # NoElement
  /\ this'.mediaElement.tag = "VIDEO"
  /\ this'.mediaElement.state = "loaded"
  /\ ~autoplayBlocked'

\* playback is requested only while the flag is true
C33_PlayOnlyWhileFlag ==
  [][Places(calls', "play") # {} => PlayingFlag(attrs')]_vars

\* setting playing to "false" pauses the video
C33_FalsePauses ==
  [][(attrs'.playing # attrs.playing /\ attrs'.playing = "false"
        /\ VideoShown) => this'.mediaElement.paused]_vars

\* removing the playing attribute leaves or makes the video playing
C33_RemovedPlays ==
  [][(attrs'.playing # attrs.playing /\ attrs'.playing = Absent
        /\ VideoShown) => ~this'.mediaElement.paused]_vars

\* C33: the playback of a loaded video follows the playing flag, an absent
\* attribute counting as true: play is requested only while the flag is
\* true, and a change of the attribute on an initialised component leaves
\* the video paused if the flag is now false and playing if it is now true
C33_PlaybackFollowsFlag ==
  [][/\ Places(calls', "play") # {} => PlayingFlag(attrs')
     /\ (attrs'.playing # attrs.playing /\ VideoShown)
          => (this'.mediaElement.paused = ~PlayingFlag(attrs'))]_vars

----------------------------------------------------------------------------
(* C34 *)

\* the component dispatches an event of this type on itself in the step
Emitted(type) ==
  \E i \in Places(calls', "dispatchEvent") : calls'[i].arg = type

HeldVideo(t) == t.mediaElement # NoElement /\ t.mediaElement.tag = "VIDEO"

\* the held video starts playing, is paused, finishes loading in the step
VideoStarts ==
  /\ HeldVideo(this) /\ HeldVideo(this')
  /\ this.mediaElement.paused /\ ~this'.mediaElement.paused

VideoPauses ==
  /\ HeldVideo(this) /\ HeldVideo(this')
  /\ ~this.mediaElement.paused /\ this'.mediaElement.paused
  /\ Places(calls', "pause") # {}

VideoLoads ==
  /\ HeldVideo(this) /\ HeldVideo(this')
  /\ this.mediaElement.state = "loading"
  /\ this'.mediaElement.state = "loaded"

\* C34: a step in which the held video starts playing, is paused or
\* finishes loading dispatches the play, pause or loadeddata notification
C34_LifecycleNotified ==
  [][/\ VideoStarts => Emitted("play")
     /\ VideoPauses => Emitted("pause")
     /\ VideoLoads => Emitted("loadeddata")]_vars

----------------------------------------------------------------------------
(* C35 *)

\* C35: when the load of an element the component no longer holds fails,
\* the component keeps the element it holds
C35_StaleFailureSparesNewer ==
  [][StaleMediaError => this'.mediaElement = this.mediaElement]_vars

----------------------------------------------------------------------------
(* C36 *)

\* the step dispatches a pause event to its listener
PauseHandled ==
  \E ev \in video.events : ev.type = "pause" /\ ev \notin video'.events

\* the three parts of C36, each on its own: at most one video-frame
\* callback is pending
C36_AtMostOnePending == Cardinality(video.pending) <= 1

\* the pause listener leaves no callback pending
C36_PauseCancels == [][PauseHandled => video'.pending = {}]_vars

\* a torn-down component whose queued events have been dispatched has no
\* callback pending
C36_TeardownCancels ==
  (~video._isLoaded /\ video.events = {}) => video.pending = {}

\* C36: at most one video-frame callback is pending at any time, the pause
\* listener leaves none pending, and a torn-down component has none pending
\* once its queued events have been dispatched
C36_OneFrameSubscription ==
  [][/\ Cardinality(video'.pending) <= 1
     /\ PauseHandled => video'.pending = {}
     /\ (~video'._isLoaded /\ video'.events = {}) => video'.pending = {}]_vars

----------------------------------------------------------------------------
(* C37 *)

\* the names whose stored handle was not resolved against the active program
StaleHandles ==
  {n \in DOMAIN this._uniformLocations :
     this._uniformLocations[n].program # this.program}

\* C37: every handle in the uniform-handle map was resolved against the
\* active program, which has not been deleted
C37_HandlesOfActiveProgram ==
  /\ StaleHandles = {}
  /\ this._uniformLocations # <<>> =>
       (this.program # NULL /\ glPrograms[this.program].deletes = 0)

\* a frame has been drawn through handles that were resolved after a shader
\* update replaced the program
C37_Witness ==
  /\ FrameDrawn
  /\ this._uniformLocations # <<>>
  /\ attrs.fragmentShader = FragTint
  /\ glPrograms[this.program].source = FragTint

----------------------------------------------------------------------------
(* C38 *)

\* C38: _hasTexture is true only while the component holds a media element
\* that has finished loading
C38_HasTextureMeansLoaded ==
  this._hasTexture =>
    (this.mediaElement # NoElement /\ this.mediaElement.state = "loaded")

----------------------------------------------------------------------------
(* C39 *)

\* the component has been torn down and not initialised again
TornDown == ~this._isLoaded /\ this.gl = NULL /\ this.canvas = NoCanvas

\* host calls that are not calls on the GPU context
NonGpuCalls ==
  {"play", "pause", "load", "warn", "requestAnimationFrame",
   "cancelAnimationFrame"}

\* a handler has run to its end without throwing and without a GPU call
Quiet(r) ==
  /\ ~r.exc
  /\ \A i \in DOMAIN r.calls : r.calls[i].op \in NonGpuCalls

\* the handlers of the attributes, run on the current state
QuietSrc == \A v \in SrcValues \cup {Absent} : Quiet(loadMedia(World, v))

QuietFragmentShader ==
  \A v \in FragmentShaderValues \cup {Absent} :
    Quiet(updateShader(World, IF Falsy(v) THEN DefaultFragmentShader ELSE v))

QuietWidth ==
  \A v \in WidthValues \cup {Absent} :
    Quiet(updateCanvasSize(
            [World EXCEPT !.this._width =
               IF Falsy(v) THEN NullNum ELSE parseInt(v)]))

QuietHeight ==
  \A v \in HeightValues \cup {Absent} :
    Quiet(updateCanvasSize(
            [World EXCEPT !.this._height =
               IF Falsy(v) THEN NullNum ELSE parseInt(v)]))

QuietUniforms ==
  \A v \in UniformsValues \cup {Absent} : Quiet(updateUniforms(World, v))

QuietAlt == \A v \in {"a picture", Absent} : Quiet(updateAccessibility(World, v))

QuietPlaying ==
  \A v \in PlayingValues \cup {Absent} :
    LET playing == v # Absent /\ v # "false"
        p1 == [World EXCEPT !.this._playing = playing]
    IN Quiet(IF HeldVideo(this)
               THEN IF playing THEN play(p1) ELSE pause(p1)
               ELSE p1)

\* the load handler of the held element and of the elements no longer held
QuietLoad ==
  /\ (this.mediaElement # NoElement /\ this.mediaElement.state = "loading")
       => Quiet(loadHandler(
                  [World EXCEPT !.this.mediaElement.state = "loaded"],
                  this.mediaElement.tag))
  /\ \A tag \in {"IMG", "VIDEO"} :
       staleLoads[tag] > 0
         => Quiet(loadHandler([World EXCEPT !.staleLoads[tag] = @ - 1], tag))

\* a pending animation-frame callback
QuietFrame ==
  \A h \in rafQueue : Quiet(render([World EXCEPT !.rafQueue = @ \ {h}]))

\* the callbacks of C39, each on its own
C39_Src == TornDown => QuietSrc
C39_FragmentShader == TornDown => QuietFragmentShader
C39_Width == TornDown => QuietWidth
C39_Height == TornDown => QuietHeight
C39_Uniforms == TornDown => QuietUniforms
C39_Alt == TornDown => QuietAlt
C39_Playing == TornDown => QuietPlaying
C39_Load == TornDown => QuietLoad
C39_Frame == TornDown => QuietFrame

\* C39: on a torn-down component, the handler of a change of src,
\* fragment-shader, width, height, uniforms, alt or playing, the load
\* handler of a load in flight and a pending frame callback each run to
\* their end without throwing and without a GPU call
C39_TornDownCallbacksQuiet ==
  TornDown =>
    /\ QuietSrc
    /\ QuietFragmentShader
    /\ QuietWidth
    /\ QuietHeight
    /\ QuietUniforms
    /\ QuietAlt
    /\ QuietPlaying
    /\ QuietLoad
    /\ QuietFrame

====
